---- MODULE Spec2Model ----
(***************************************************************************)
(* A model of dwm (xcb port, src/dwm.c with src/config.def.h).             *)
(*                                                                         *)
(* The window manager is a single-threaded event loop: every X event is    *)
(* handled to completion before the next one is read.  Each handler and    *)
(* each key/mouse bind is one action.  The C functions are translated as   *)
(* operators from a state record s (the globals mons, selmon, the heap of  *)
(* Client records, the window holding input focus, ...) to the state       *)
(* record after the call, so that nested calls compose as in the source.   *)
(*                                                                         *)
(* Representation:                                                         *)
(*  - a Monitor* is the 1-based position of the monitor in the list mons;  *)
(*    monitors are only ever removed from the tail (updategeom);           *)
(*  - a Client* is a heap address 1..MaxClients, NULL is 0; s.clients maps *)
(*    the allocated addresses to the Client records;                       *)
(*  - the intrusive lists m->clients (links c->next) and m->stack (links   *)
(*    c->snext) are the sequences of addresses met from the list head;     *)
(*  - an unsigned int bit mask (tags, tagset, Arg.ui) is the set of the    *)
(*    positions 0..31 of its one bits: & is \cap, | is \cup, ^ is the      *)
(*    symmetric difference, << drops what leaves the 32 bits;              *)
(*  - a window is a number, the root window is 0.                          *)
(***************************************************************************)
EXTENDS Integers, Sequences, FiniteSets, TLC

VARIABLES mons, selmon, clients, focuswin, crashed, sw, sh, ptrgrab, topbar, hist

vars == <<mons, selmon, clients, focuswin, crashed, sw, sh, ptrgrab, topbar, hist>>

(***************************************************************************)
(* Bounds of the model.                                                    *)
(***************************************************************************)
MaxClients == 2
MaxWin == 2
MaxHist == 3
MaxToggles == 1
ScreenW == 1024
ScreenH == 768

(***************************************************************************)
(* Program constants.                                                      *)
(***************************************************************************)
NULL == 0
root == 0
NumTags == 9
WordBits == 32
borderpx == 1
snap == 32
bh == 16
showbar == TRUE
resizehints == TRUE
mfact == 55

TAGMASK == 0 .. (NumTags - 1)
AllBits == 0 .. (WordBits - 1)

\* layouts[]: index, and whether the entry has an arrange function
layouts == <<"tile", "NULL", "monocle">>

\* Rule: class, instance, title (<<>> is a NULL pattern), tags, isfloating, monitor
rules ==
  << [class |-> <<"G","i","m","p">>, instance |-> <<>>, title |-> <<>>,
      tags |-> {}, isfloating |-> TRUE, monitor |-> -1],
     [class |-> <<"d","i","s","p","l","a","y">>, instance |-> <<>>, title |-> <<>>,
      tags |-> {}, isfloating |-> TRUE, monitor |-> -1],
     [class |-> <<"F","i","r","e","f","o","x">>, instance |-> <<>>, title |-> <<>>,
      tags |-> {8}, isfloating |-> FALSE, monitor |-> -1],
     [class |-> <<"N","a","m","o","r","o","k","a">>, instance |-> <<>>, title |-> <<>>,
      tags |-> {8}, isfloating |-> FALSE, monitor |-> -1],
     [class |-> <<"M","i","d","o","r","i">>, instance |-> <<>>, title |-> <<>>,
      tags |-> {8}, isfloating |-> FALSE, monitor |-> -1],
     [class |-> <<"E","p","i","p","h","a","n","y">>, instance |-> <<>>, title |-> <<>>,
      tags |-> {8}, isfloating |-> FALSE, monitor |-> -1] >>

broken == <<"b","r","o","k","e","n">>

(***************************************************************************)
(* C integer conversions and helpers.                                      *)
(***************************************************************************)
U16(v) == v % 65536

I16(v) == LET r == v % 65536 IN IF r >= 32768 THEN r - 65536 ELSE r

MAX(a, b) == IF a > b THEN a ELSE b

MIN(a, b) == IF a < b THEN a ELSE b

abs(a) == IF a < 0 THEN -a ELSE a

\* lroundf(n / d) for d > 0: round to nearest, halves away from zero
lroundf(n, d) == IF n >= 0 THEN (2 * n + d) \div (2 * d)
                 ELSE -((2 * (-n) + d) \div (2 * d))

\* a << 1 and a >> 1 on a 32-bit unsigned mask
Shl1(a) == {b + 1 : b \in {x \in a : x + 1 < WordBits}}

Shr1(a) == {b - 1 : b \in {x \in a : x >= 1}}

BitXor(a, b) == (a \ b) \cup (b \ a)

\* strstr(hay, needle) != NULL
strstr(hay, needle) ==
  \E i \in 0 .. (Len(hay) - Len(needle)) :
     \A j \in 1 .. Len(needle) : hay[i + j] = needle[j]

\* the list without the first occurrence of c
RECURSIVE Unlink(_, _)
Unlink(list, c) ==
  IF list = <<>> THEN <<>>
  ELSE IF Head(list) = c THEN Tail(list)
  ELSE <<Head(list)>> \o Unlink(Tail(list), c)

Arranged(m) == layouts[m.lt[m.sellt + 1]] # "NULL"

WIDTH(c) == c.w + 2 * c.bw

HEIGHT(c) == c.h + 2 * c.bw

INRECT(X, Y, RX, RY, RW, RH) ==
  X >= RX /\ X < RX + RW /\ Y >= RY /\ Y < RY + RH

\* ISVISIBLE(C): C->tags & C->mon->tagset[C->mon->seltags]
ISVISIBLE(s, c) ==
  LET m == s.mons[s.clients[c].mon]
  IN  (s.clients[c].tags \cap m.tagset[m.seltags + 1]) # {}

\* for(c = list; c && !ISVISIBLE(c); c = c->snext);
RECURSIVE FirstVisible(_, _)
FirstVisible(s, list) ==
  IF list = <<>> THEN NULL
  ELSE IF ISVISIBLE(s, Head(list)) THEN Head(list)
  ELSE FirstVisible(s, Tail(list))

(***************************************************************************)
(* Geometry: size hints, resize, bar position, layouts.                    *)
(***************************************************************************)
\* c->maxa < (float)w / h, with maxa = a[1] / a[2] and IEEE division by zero
RatioBelow(a, w, h) ==
  IF h = 0 THEN w > 0 ELSE a[1] * h < w * a[2]

\* if(*x > hi) *x = hi - WIDTH(c);
ClampHigh(x, hi, width) == IF x > hi THEN I16(hi - width) ELSE x

\* if(*x + *w + 2 * c->bw < lo) *x = lo;
ClampLow(x, w, bw, lo) == IF x + w + 2 * bw < lo THEN lo ELSE x

\* if(*h < bh) *h = bh;
AtLeastBar(v) == IF v < bh THEN bh ELSE v

\* the size hints work on the pair d = [w, h] of uint16_t
SubBase(c, d) == [w |-> U16(d.w - c.basew), h |-> U16(d.h - c.baseh)]

AddBase(c, d) == [w |-> U16(d.w + c.basew), h |-> U16(d.h + c.baseh)]

AspectLimits(c, d) ==
  IF c.mina[1] > 0 /\ c.maxa[1] > 0
  THEN IF RatioBelow(c.maxa, d.w, d.h)
       THEN [d EXCEPT !.w = U16(lroundf(d.h * c.maxa[1], c.maxa[2]))]
       ELSE IF RatioBelow(c.mina, d.h, d.w)
       THEN [d EXCEPT !.h = U16(lroundf(d.w * c.mina[1], c.mina[2]))]
       ELSE d
  ELSE d

Increments(c, d) ==
  [w |-> IF c.incw # 0 THEN U16(d.w - (d.w % c.incw)) ELSE d.w,
   h |-> IF c.inch # 0 THEN U16(d.h - (d.h % c.inch)) ELSE d.h]

LimitMax(v, max) == IF max # 0 THEN U16(MIN(v, max)) ELSE v

MinMax(c, d) ==
  [w |-> LimitMax(U16(MAX(d.w, c.minw)), c.maxw),
   h |-> LimitMax(U16(MAX(d.h, c.minh)), c.maxh)]

\* the block under if(resizehints || c->isfloating)
SizeHints(c, d) ==
  MinMax(c, AddBase(c, Increments(c,
    IF c.basew = c.minw /\ c.baseh = c.minh
    THEN SubBase(c, AspectLimits(c, d))
    ELSE AspectLimits(c, SubBase(c, d)))))

Geom(x, y, d) == [x |-> x, y |-> y, w |-> d.w, h |-> d.h]

\* the geometry applysizehints leaves in *x, *y, *w, *h
applysizehints(s, cid, x, y, w, h, interact) ==
  LET c == s.clients[cid]
      m == s.mons[c.mon]
      d == [w |-> AtLeastBar(MAX(1, w)), h |-> AtLeastBar(MAX(1, h))]
  IN  Geom(ClampLow(ClampHigh(x, IF interact THEN s.sw ELSE m.mx + m.mw, WIDTH(c)),
                    MAX(1, w), c.bw, IF interact THEN 0 ELSE m.mx),
           ClampLow(ClampHigh(y, IF interact THEN s.sh ELSE m.my + m.mh, HEIGHT(c)),
                    MAX(1, h), c.bw, IF interact THEN 0 ELSE m.my),
           IF resizehints \/ c.isfloating THEN SizeHints(c, d) ELSE d)

\* the body of resize once applysizehints has answered r
SetGeom(s, cid, r) ==
  LET c == s.clients[cid]
  IN  IF r.x # c.x \/ r.y # c.y \/ r.w # c.w \/ r.h # c.h
      THEN [s EXCEPT !.clients[cid] = [@ EXCEPT !.x = r.x, !.y = r.y, !.w = r.w, !.h = r.h]]
      ELSE s

\* the arguments are converted to int16_t x, y and uint16_t w, h by the call
resize(s, cid, x, y, w, h, interact) ==
  SetGeom(s, cid, applysizehints(s, cid, I16(x), I16(y), U16(w), U16(h), interact))

\* updatebarpos that leaves wy alone when the bar is hidden
updatebarpos_keepwy(m) ==
  IF m.showbar
  THEN [m EXCEPT !.wh = I16(m.mh - bh),
                 !.by = IF m.topbar THEN m.my ELSE I16(m.my + I16(m.mh - bh)),
                 !.wy = IF m.topbar THEN I16(m.my + bh) ELSE m.my]
  ELSE [m EXCEPT !.wh = m.mh, !.by = I16(-bh)]

updatebarpos(m) ==
  IF m.showbar
  THEN [m EXCEPT !.wh = I16(m.mh - bh),
                 !.by = IF m.topbar THEN m.my ELSE I16(m.my + I16(m.mh - bh)),
                 !.wy = IF m.topbar THEN I16(m.my + bh) ELSE m.my]
  ELSE [m EXCEPT !.wy = m.my, !.wh = m.mh, !.by = I16(-bh)]

\* nexttiled applied along a list: the clients that are neither floating nor hidden
RECURSIVE Tiled(_, _)
Tiled(s, list) ==
  IF list = <<>> THEN <<>>
  ELSE IF s.clients[Head(list)].isfloating \/ ~ISVISIBLE(s, Head(list))
       THEN Tiled(s, Tail(list))
       ELSE <<Head(list)>> \o Tiled(s, Tail(list))

FirstOf(list) == IF list = <<>> THEN NULL ELSE Head(list)

nexttiled(s, list) == FirstOf(Tiled(s, list))

\* mw = lroundf(m->mfact * m->ww), mfact in hundredths
MasterWidth(m) == U16(lroundf(m.mfact * m.ww, 100))

\* h = m->wh / n; if(h < bh) h = m->wh;
StackHeight(m, n) == IF U16(m.wh \div n) < bh THEN U16(m.wh) ELSE U16(m.wh \div n)

\* the loop over the stack column of tile(): i counts from 0, n stack clients
RECURSIVE TileStack(_, _, _, _, _, _, _, _, _)
RECURSIVE TileNext(_, _, _, _, _, _, _, _, _)
TileStack(s, mi, list, x, y, w, h, i, n) ==
  IF list = <<>> THEN s
  ELSE TileNext(resize(s, Head(list), x, y, w - 2 * s.clients[Head(list)].bw,
                       IF i + 1 = n
                       THEN s.mons[mi].wy + s.mons[mi].wh - y - 2 * s.clients[Head(list)].bw
                       ELSE h - 2 * s.clients[Head(list)].bw,
                       FALSE),
                mi, list, x, y, w, h, i, n)

\* if(h != m->wh) y = c->y + HEIGHT(c); and on to the next client
TileNext(s, mi, list, x, y, w, h, i, n) ==
  TileStack(s, mi, Tail(list), x,
            IF h # s.mons[mi].wh
            THEN I16(s.clients[Head(list)].y + HEIGHT(s.clients[Head(list)]))
            ELSE y,
            w, h, i + 1, n)

\* x = (m->wx + mw > c->x + c->w) ? c->x + c->w + 2 * c->bw : m->wx + mw
StackX(m, c) ==
  I16(IF m.wx + MasterWidth(m) > c.x + c.w THEN c.x + c.w + 2 * c.bw
      ELSE m.wx + MasterWidth(m))

\* w = (m->wx + mw > c->x + c->w) ? m->wx + m->ww - x : m->ww - mw
StackW(m, c) ==
  U16(IF m.wx + MasterWidth(m) > c.x + c.w THEN m.wx + m.ww - StackX(m, c)
      ELSE m.ww - MasterWidth(m))

\* tile() after the master, tl[1], has been resized
TileRest(s, mi, tl) ==
  IF Len(tl) = 1 THEN s
  ELSE TileStack(s, mi, Tail(tl), StackX(s.mons[mi], s.clients[tl[1]]), s.mons[mi].wy,
                 StackW(s.mons[mi], s.clients[tl[1]]),
                 StackHeight(s.mons[mi], Len(tl) - 1), 0, Len(tl) - 1)

\* tile() on the tiled clients tl of the monitor
TileList(s, mi, tl) ==
  IF tl = <<>> THEN s
  ELSE TileRest(resize(s, tl[1], s.mons[mi].wx, s.mons[mi].wy,
                       (IF Len(tl) = 1 THEN s.mons[mi].ww ELSE MasterWidth(s.mons[mi]))
                         - 2 * s.clients[tl[1]].bw,
                       s.mons[mi].wh - 2 * s.clients[tl[1]].bw, FALSE),
                mi, tl)

tile(s, mi) == TileList(s, mi, Tiled(s, s.mons[mi].clients))

RECURSIVE MonocleLoop(_, _, _)
MonocleLoop(s, mi, list) ==
  IF list = <<>> THEN s
  ELSE MonocleLoop(resize(s, Head(list), s.mons[mi].wx, s.mons[mi].wy,
                          s.mons[mi].ww - 2 * s.clients[Head(list)].bw,
                          s.mons[mi].wh - 2 * s.clients[Head(list)].bw, FALSE),
                   mi, Tail(list))

monocle(s, mi) == MonocleLoop(s, mi, Tiled(s, s.mons[mi].clients))

\* the visible branch of showhide: a client that is floating or on a monitor
\* without arrange function is resized to its own geometry
ShowOne(s, c) ==
  IF ~Arranged(s.mons[s.clients[c].mon]) \/ s.clients[c].isfloating
  THEN resize(s, c, s.clients[c].x, s.clients[c].y, s.clients[c].w, s.clients[c].h, FALSE)
  ELSE s

\* showhide(c) along the focus stack; hiding moves the window, not the record
RECURSIVE showhide(_, _)
showhide(s, list) ==
  IF list = <<>> THEN s
  ELSE IF ISVISIBLE(s, Head(list)) THEN showhide(ShowOne(s, Head(list)), Tail(list))
  ELSE showhide(s, Tail(list))

arrangemon(s, mi) ==
  IF layouts[s.mons[mi].lt[s.mons[mi].sellt + 1]] = "tile" THEN tile(s, mi)
  ELSE IF layouts[s.mons[mi].lt[s.mons[mi].sellt + 1]] = "monocle" THEN monocle(s, mi)
  ELSE s

(***************************************************************************)
(* Client lists, focus, arrange.                                           *)
(***************************************************************************)
\* attach that links the client at the tail of the list
attach_tail(s, c) ==
  [s EXCEPT !.mons[s.clients[c].mon].clients = @ \o <<c>>]

attach(s, c) ==
  [s EXCEPT !.mons[s.clients[c].mon].clients = <<c>> \o @]

\* attachstack that links nothing
attachstack_skipped(s, c) == s

attachstack(s, c) ==
  [s EXCEPT !.mons[s.clients[c].mon].stack = <<c>> \o @]

detach(s, c) ==
  [s EXCEPT !.mons[s.clients[c].mon].clients = Unlink(@, c)]

\* for(t = c->mon->stack; t && !ISVISIBLE(t); t = t->snext); c->mon->sel = t;
ResetSel(s, mi) ==
  [s EXCEPT !.mons[mi].sel = FirstVisible(s, s.mons[mi].stack)]

\* detachstack without the repair of c->mon->sel
detachstack_keepsel(s, c) ==
  [s EXCEPT !.mons[s.clients[c].mon].stack = Unlink(@, c)]

detachstack(s, c) ==
  IF c = s.mons[s.clients[c].mon].sel
  THEN ResetSel([s EXCEPT !.mons[s.clients[c].mon].stack = Unlink(@, c)], s.clients[c].mon)
  ELSE [s EXCEPT !.mons[s.clients[c].mon].stack = Unlink(@, c)]

\* grabbuttons(c, false), normal border colour, input focus to the root
unfocus(s, c) ==
  IF c = NULL THEN s
  ELSE IF c \in DOMAIN s.clients
  THEN [s EXCEPT !.focuswin = root, !.clients[c].focused = FALSE,
                 !.clients[c].border = "norm"]
  ELSE [s EXCEPT !.focuswin = root]

\* selmon->sel = c
SetSel(s, c) == [s EXCEPT !.mons[s.selmon].sel = c]

\* the if(c) branch of focus: selmon = c->mon, c to the head of the focus
\* stack, input focus to c->win
FocusClient(s, c) ==
  [attachstack(detachstack([s EXCEPT !.selmon = s.clients[c].mon], c), c)
     EXCEPT !.focuswin = s.clients[c].win, !.clients[c].focused = TRUE,
            !.clients[c].border = "sel"]

\* focus() once c is chosen and the old selection is unfocused
FocusOn(s, c) ==
  SetSel(IF c # NULL THEN FocusClient(s, c) ELSE [s EXCEPT !.focuswin = root], c)

focus(s, c) ==
  FocusOn(unfocus(s, s.mons[s.selmon].sel),
          IF c = NULL \/ ~ISVISIBLE(s, c)
          THEN FirstVisible(s, s.mons[s.selmon].stack)
          ELSE c)

\* for(m = mons; m; m = m->next) showhide(m->stack), from monitor i on
RECURSIVE ShowHideAll(_, _)
ShowHideAll(s, i) ==
  IF i > Len(s.mons) THEN s ELSE ShowHideAll(showhide(s, s.mons[i].stack), i + 1)

\* for(m = mons; m; m = m->next) arrangemon(m), from monitor i on
RECURSIVE ArrangeAll(_, _)
ArrangeAll(s, i) ==
  IF i > Len(s.mons) THEN s ELSE ArrangeAll(arrangemon(s, i), i + 1)

\* arrange(m); m = NULL (0) arranges every monitor
arrange(s, mi) ==
  IF mi # NULL
  THEN arrangemon(focus(showhide(s, s.mons[mi].stack), NULL), mi)
  ELSE ArrangeAll(focus(ShowHideAll(s, 1), NULL), 1)

\* the clients of all monitors in the order wintoclient walks them
RECURSIVE AllClients(_, _)
AllClients(s, i) ==
  IF i > Len(s.mons) THEN <<>> ELSE s.mons[i].clients \o AllClients(s, i + 1)

RECURSIVE FindWin(_, _, _)
FindWin(s, list, w) ==
  IF list = <<>> THEN NULL
  ELSE IF s.clients[Head(list)].win = w THEN Head(list)
  ELSE FindWin(s, Tail(list), w)

wintoclient(s, w) == FindWin(s, AllClients(s, 1), w)

\* the first monitor from i on whose work area holds the point, else selmon
RECURSIVE ptrtomonFrom(_, _, _, _)
ptrtomonFrom(s, x, y, i) ==
  IF i > Len(s.mons) THEN s.selmon
  ELSE IF INRECT(x, y, s.mons[i].wx, s.mons[i].wy, s.mons[i].ww, s.mons[i].wh) THEN i
  ELSE ptrtomonFrom(s, x, y, i + 1)

ptrtomon(s, x, y) == ptrtomonFrom(s, x, y, 1)

\* for(m = mons; m; m = m->next) if(w == m->barwin) return m; 0 if none
RECURSIVE BarMon(_, _, _)
BarMon(s, w, i) ==
  IF i > Len(s.mons) THEN 0
  ELSE IF s.mons[i].barwin = w THEN i
  ELSE BarMon(s, w, i + 1)

\* wintomon after the root window test, c = wintoclient(w)
ClientMon(s, c) == IF c # NULL THEN s.clients[c].mon ELSE s.selmon

\* ptr is the reply of getrootptr: same_screen, root_x, root_y
wintomon(s, w, ptr) ==
  IF w = root /\ ptr.same_screen THEN ptrtomon(s, ptr.x, ptr.y)
  ELSE IF BarMon(s, w, 1) # 0 THEN BarMon(s, w, 1)
  ELSE ClientMon(s, wintoclient(s, w))

(***************************************************************************)
(* manage, unmanage.                                                       *)
(***************************************************************************)
\* for(m = mons; m && m->num != num; m = m->next); 0 if none
RECURSIVE NumMon(_, _, _)
NumMon(s, num, i) ==
  IF i > Len(s.mons) THEN 0
  ELSE IF s.mons[i].num = num THEN i
  ELSE NumMon(s, num, i + 1)

\* a NULL class_name or instance_name reads as broken
OrBroken(str) == IF str = <<>> THEN broken ELSE str

\* the condition of the rule loop; a NULL pattern is <<>>
Matches(r, p) ==
  /\ (r.title = <<>> \/ strstr(p.name, r.title))
  /\ (r.class = <<>> \/ strstr(OrBroken(p.class), r.class))
  /\ (r.instance = <<>> \/ strstr(OrBroken(p.instance), r.instance))

\* a rule loop body that never clears the floating flag
ApplyRule_or(s, c, r) ==
  [c EXCEPT !.isfloating = @ \/ r.isfloating,
            !.tags = @ \cup r.tags,
            !.mon = IF NumMon(s, r.monitor, 1) # 0 THEN NumMon(s, r.monitor, 1) ELSE @]

\* the body of the rule loop for a rule that matches
ApplyRule(s, c, r) ==
  [c EXCEPT !.isfloating = r.isfloating,
            !.tags = @ \cup r.tags,
            !.mon = IF NumMon(s, r.monitor, 1) # 0 THEN NumMon(s, r.monitor, 1) ELSE @]

\* the loop of applyrules over a rule table rs, from rule i on
RECURSIVE RulesFrom(_, _, _, _, _)
RulesFrom(s, c, p, rs, i) ==
  IF i > Len(rs) THEN c
  ELSE RulesFrom(s, IF Matches(rs[i], p) THEN ApplyRule(s, c, rs[i]) ELSE c,
                 p, rs, i + 1)

\* the loop over rules[] of applyrules, from rule i on
RulesLoop(s, c, p, i) == RulesFrom(s, c, p, rules, i)

\* c->tags = c->tags & TAGMASK ? c->tags & TAGMASK : c->mon->tagset[c->mon->seltags]
DefaultTags(s, c) ==
  [c EXCEPT !.tags = IF (c.tags \cap TAGMASK) # {}
                     THEN c.tags \cap TAGMASK
                     ELSE s.mons[c.mon].tagset[s.mons[c.mon].seltags + 1]]

\* applyrules with the rule table rs; p.class_ok: the WM_CLASS reply was read
ApplyTable(s, c, p, rs) ==
  DefaultTags(s, IF p.class_ok
                 THEN RulesFrom(s, [c EXCEPT !.isfloating = FALSE, !.tags = {}], p, rs, 1)
                 ELSE [c EXCEPT !.isfloating = FALSE, !.tags = {}])

applyrules(s, c, p) == ApplyTable(s, c, p, rules)

\* the last statement of updatesizehints
SetFixed(c) ==
  [c EXCEPT !.isfixed = (c.maxw # 0 /\ c.minw # 0 /\ c.maxh # 0 /\ c.minh # 0
                         /\ c.maxw = c.minw /\ c.maxh = c.minh)]

\* size: the WM_NORMAL_HINTS reply; a failed reply has no flags
updatesizehints(c, size) ==
  SetFixed([c EXCEPT
    !.basew = IF "base" \in size.flags THEN size.base_width
              ELSE IF "min" \in size.flags THEN size.min_width ELSE 0,
    !.baseh = IF "base" \in size.flags THEN size.base_height
              ELSE IF "min" \in size.flags THEN size.min_height ELSE 0,
    !.incw  = IF "inc" \in size.flags THEN size.width_inc ELSE 0,
    !.inch  = IF "inc" \in size.flags THEN size.height_inc ELSE 0,
    !.maxw  = IF "max" \in size.flags THEN size.max_width ELSE 0,
    !.maxh  = IF "max" \in size.flags THEN size.max_height ELSE 0,
    !.minw  = IF "min" \in size.flags THEN size.min_width
              ELSE IF "base" \in size.flags THEN size.base_width ELSE 0,
    !.minh  = IF "min" \in size.flags THEN size.min_height
              ELSE IF "base" \in size.flags THEN size.base_height ELSE 0,
    !.mina  = IF "aspect" \in size.flags THEN size.min_aspect ELSE <<0, 1>>,
    !.maxa  = IF "aspect" \in size.flags THEN size.max_aspect ELSE <<0, 1>>])

\* static Client cz; focused and border are what the server holds for the
\* window: the last argument of grabbuttons() and the border colour, both set
\* in manage() before the client is attached
cz == [win |-> 0, mon |-> 0, tags |-> {}, isfixed |-> FALSE, isfloating |-> FALSE,
       isurgent |-> FALSE, x |-> 0, y |-> 0, w |-> 0, h |-> 0, bw |-> 0, oldbw |-> 0,
       basew |-> 0, baseh |-> 0, incw |-> 0, inch |-> 0, maxw |-> 0, maxh |-> 0,
       minw |-> 0, minh |-> 0, mina |-> <<0, 1>>, maxa |-> <<0, 1>>,
       focused |-> FALSE, border |-> "norm"]

\* malloc: the lowest free address
NewClient(s) == CHOOSE a \in 1 .. (Cardinality(DOMAIN s.clients) + 1) : a \notin DOMAIN s.clients

\* the heap with the record c at the fresh address a
Store(s, a, c) == [s EXCEPT !.clients = (a :> c) @@ s.clients]

\* the heap f cut down to the addresses in S
RECURSIVE Kept(_, _)
Kept(f, S) ==
  IF S = {} THEN <<>>
  ELSE ((CHOOSE a \in S : TRUE) :> f[CHOOSE a \in S : TRUE])
       @@ Kept(f, S \ {CHOOSE a \in S : TRUE})

\* free(c)
Free(s, a) == [s EXCEPT !.clients = Kept(s.clients, DOMAIN s.clients \ {a})]

\* manage: the x the else branch leaves, from x = geo->x + wx and the width
PlaceX(m, x, w) ==
  MAX(IF x + w > m.mx + m.mw THEN I16(m.mx + m.mw - w) ELSE x, m.mx)

\* manage: the y the else branch leaves; x is the final c->x
PlaceY(m, y, h, x, w) ==
  I16(MAX(IF y + h > m.my + m.mh THEN I16(m.my + m.mh - h) ELSE y,
          IF m.by = 0 /\ x + (w \div 2) >= m.wx /\ x + (w \div 2) < m.wx + m.ww
          THEN bh ELSE m.my))

\* the geometry part of manage: c->mon is set, geo is the geometry reply
PlaceClient(m, c, geo) ==
  IF U16(geo.w) = m.mw /\ U16(geo.h) = m.mh
  THEN [c EXCEPT !.x = m.mx, !.y = m.my, !.w = U16(geo.w), !.h = U16(geo.h),
                 !.oldbw = geo.bw, !.bw = 0]
  ELSE [c EXCEPT !.x = PlaceX(m, I16(geo.x + m.wx), U16(geo.w)),
                 !.y = PlaceY(m, I16(geo.y + m.wy), U16(geo.h),
                              PlaceX(m, I16(geo.x + m.wx), U16(geo.w)), U16(geo.w)),
                 !.w = U16(geo.w), !.h = U16(geo.h),
                 !.oldbw = geo.bw, !.bw = borderpx]

\* manage that applies the rules to transient windows too
Adopt_rules(s, c, p, t) == applyrules(s, [c EXCEPT !.mon = s.selmon], p)

\* manage: monitor and tags from the transient-for client t, else from the rules
Adopt(s, c, p, t) ==
  IF t # NULL
  THEN [c EXCEPT !.mon = s.clients[t].mon, !.tags = s.clients[t].tags]
  ELSE applyrules(s, [c EXCEPT !.mon = s.selmon], p)

\* if(!c->isfloating) c->isfloating = (trans != XCB_WINDOW_NONE) || c->isfixed;
SetFloating(c, p) ==
  [c EXCEPT !.isfloating = IF @ THEN TRUE
                           ELSE (~p.trans_err /\ p.trans # 0) \/ c.isfixed]

\* manage from the geometry reply on: c has monitor and tags
Settle(s, c, p) ==
  SetFloating(updatesizehints(PlaceClient(s.mons[c.mon], c, p.geo), p.size), p)

\* attach(c); attachstack(c); arrange(c->mon); for the record c stored at a
Insert(s, a, c) ==
  arrange(attachstack(attach(Store(s, a, c), a), a), c.mon)

\* p: what the server answers about window w: trans (WM_TRANSIENT_FOR, 0 is
\* none), trans_err, the WM_CLASS reply, the title, geo (geo_ok: the geometry
\* reply arrived), size
manage(s, w, p) ==
  IF ~p.geo_ok THEN s
  ELSE Insert(s, NewClient(s),
              Settle(s, Adopt(s, [cz EXCEPT !.win = w], p,
                              IF p.trans_err THEN NULL ELSE wintoclient(s, p.trans)),
                     p))

\* maprequest without the wintoclient test
maprequest_always(s, w, p) ==
  IF ~p.attrs_ok THEN s
  ELSE IF p.override_redirect THEN s
  ELSE manage(s, w, p)

\* p.attrs_ok: the window attributes reply arrived
maprequest(s, w, p) ==
  IF ~p.attrs_ok THEN s
  ELSE IF p.override_redirect THEN s
  ELSE IF wintoclient(s, w) = NULL THEN manage(s, w, p)
  ELSE s

unmanage(s, c, destroyed) ==
  arrange(focus(Free(detachstack(detach(s, c), c), c), NULL), s.clients[c].mon)

unmapnotify(s, w) ==
  IF wintoclient(s, w) # NULL THEN unmanage(s, wintoclient(s, w), FALSE) ELSE s

destroynotify(s, w) ==
  IF wintoclient(s, w) # NULL THEN unmanage(s, wintoclient(s, w), TRUE) ELSE s

(***************************************************************************)
(* Monitors.                                                               *)
(***************************************************************************)
\* the bar window of the i-th monitor; window ids are opaque, so the fresh id
\* xcb_generate_id returns is named after the monitor that receives it
BarWin(i) == 0 - i

createmon ==
  [mx |-> 0, my |-> 0, mw |-> 0, mh |-> 0, wx |-> 0, wy |-> 0, ww |-> 0, wh |-> 0,
   by |-> 0, num |-> 0, seltags |-> 0, sellt |-> 0, tagset |-> <<{0}, {0}>>,
   mfact |-> mfact, showbar |-> showbar, topbar |-> topbar,
   clients |-> <<>>, sel |-> NULL, stack |-> <<>>, barwin |-> 0, lt |-> <<1, 2>>]

dirtomon(s, dir) ==
  IF dir > 0
  THEN IF s.selmon = Len(s.mons) THEN 1 ELSE s.selmon + 1
  ELSE IF s.selmon = 1 THEN Len(s.mons) ELSE s.selmon - 1

\* for(m = mons; m; m = m->next) m->barwin = a new window, from monitor i on
RECURSIVE BarsFrom(_, _)
BarsFrom(ms, i) ==
  IF i > Len(ms) THEN ms ELSE BarsFrom([ms EXCEPT ![i].barwin = BarWin(i)], i + 1)

updatebars(s) == [s EXCEPT !.mons = BarsFrom(s.mons, 1)]

isuniquegeom(unique, info) == \A i \in 1 .. Len(unique) : unique[i] # info

\* the loop of updategeom that keeps the first screen of every geometry
RECURSIVE UniqueScreens(_, _)
UniqueScreens(unique, info) ==
  IF info = <<>> THEN unique
  ELSE UniqueScreens(IF isuniquegeom(unique, Head(info))
                     THEN Append(unique, Head(info)) ELSE unique, Tail(info))

\* c->mon = mons; attach(c); attachstack(c);
ToFirstMon(s, c) ==
  attachstack(attach([s EXCEPT !.clients[c].mon = 1], c), c)

\* while(m->clients): move the clients of the last monitor to the first
RECURSIVE MoveClients(_)
MoveClients(s) ==
  IF s.mons[Len(s.mons)].clients = <<>> THEN s
  ELSE MoveClients(ToFirstMon(
         detachstack([s EXCEPT !.mons[Len(s.mons)].clients = Tail(@)],
                     Head(s.mons[Len(s.mons)].clients)),
         Head(s.mons[Len(s.mons)].clients)))

cleanupmon(s, mi) ==
  [s EXCEPT !.mons = SubSeq(s.mons, 1, mi - 1) \o SubSeq(s.mons, mi + 1, Len(s.mons))]

\* if(m == selmon) selmon = mons;
Reselect(s, mi) == IF mi = s.selmon THEN [s EXCEPT !.selmon = 1] ELSE s

\* one round of the removal loop: the last monitor goes
RemoveLast(s) == cleanupmon(Reselect(MoveClients(s), Len(s.mons)), Len(s.mons))

\* for(i = nn; i < n; i++): k monitors go; r is [s, dirty]
RECURSIVE RemoveMons(_, _)
RemoveMons(r, k) ==
  IF k = 0 THEN r
  ELSE RemoveMons([s |-> RemoveLast(r.s),
                   dirty |-> r.dirty \/ r.s.mons[Len(r.s.mons)].clients # <<>>], k - 1)

RECURSIVE AddMons(_, _)
AddMons(ms, k) == IF k = 0 THEN ms ELSE AddMons(Append(ms, createmon), k - 1)

\* the test of the loop over the screens: monitor i (of n old ones) is new or
\* its geometry differs from the screen u
Differs(n, i, m, u) ==
  i > n \/ u.x # m.mx \/ u.y # m.my \/ u.w # m.mw \/ u.h # m.mh

\* the body of that loop
Adjust(m, i, u) ==
  updatebarpos([m EXCEPT !.num = i - 1,
                         !.mx = u.x, !.wx = u.x, !.my = u.y, !.wy = u.y,
                         !.mw = u.w, !.ww = u.w, !.mh = u.h, !.wh = u.h])

\* the branch n <= nn: ms is the monitor list with the new monitors appended
\* the loop over the screens, from monitor i on; n monitors are old
RECURSIVE AdjustFrom(_, _, _, _)
AdjustFrom(n, ms, unique, i) ==
  IF i > Len(ms) THEN ms
  ELSE AdjustFrom(n, IF Differs(n, i, ms[i], unique[i])
                     THEN [ms EXCEPT ![i] = Adjust(ms[i], i, unique[i])] ELSE ms,
                  unique, i + 1)

GrowMons(s, ms, unique) ==
  [s |-> [s EXCEPT !.mons = AdjustFrom(Len(s.mons), ms, unique, 1)],
   dirty |-> \E i \in 1 .. Len(ms) : Differs(Len(s.mons), i, ms[i], unique[i])]

\* the Xinerama branch on the unique screens
XineramaGeom(s, unique) ==
  IF Len(s.mons) <= Len(unique)
  THEN GrowMons(s, AddMons(s.mons, Len(unique) - Len(s.mons)), unique)
  ELSE RemoveMons([s |-> s, dirty |-> FALSE], Len(s.mons) - Len(unique))

\* the default monitor setup on the monitor list ms
DefaultGeom(s, ms) ==
  IF ms[1].mw # s.sw \/ ms[1].mh # s.sh
  THEN [s |-> [s EXCEPT !.mons = [ms EXCEPT ![1] =
                 updatebarpos([@ EXCEPT !.mw = s.sw, !.ww = s.sw, !.mh = s.sh, !.wh = s.sh])]],
        dirty |-> TRUE]
  ELSE [s |-> [s EXCEPT !.mons = ms], dirty |-> FALSE]

\* selmon = wintomon(root)
PointerMon(s, ptr) == [s EXCEPT !.selmon = wintomon(s, root, ptr)]

\* if(dirty) { selmon = mons; selmon = wintomon(root); }
SelectAfter(r, ptr) ==
  IF r.dirty
  THEN [s |-> PointerMon([r.s EXCEPT !.selmon = 1], ptr), dirty |-> TRUE]
  ELSE r

\* xin: whether Xinerama is active and the screens it reports; ptr: the
\* pointer reply.  The result is [s, dirty].
updategeom(s, xin, ptr) ==
  SelectAfter(IF xin.active
              THEN XineramaGeom(s, UniqueScreens(<<>>, xin.screens))
              ELSE DefaultGeom(s, IF s.mons = <<>> THEN <<createmon>> ELSE s.mons),
              ptr)

\* configurenotify once updategeom has answered r
AfterGeom(r) == IF r.dirty THEN arrange(updatebars(r.s), NULL) ELSE r.s

\* ev: window, width, height
configurenotify(s, ev, xin, ptr) ==
  IF ev.window = root
  THEN AfterGeom(updategeom([s EXCEPT !.sw = ev.width, !.sh = ev.height], xin, ptr))
  ELSE s

\* the branch of configurerequest that moves a floating client:
\* x, y, w, h are the requested values
Request(m, c, x, y, w, h) ==
  [c EXCEPT !.x = IF (x + w) > m.mx + m.mw /\ c.isfloating
                  THEN I16(m.mx + ((m.mw \div 2) - (w \div 2))) ELSE x,
            !.y = IF (y + h) > m.my + m.mh /\ c.isfloating
                  THEN I16(m.my + ((m.mh \div 2) - (h \div 2))) ELSE y,
            !.w = w, !.h = h]

\* configurerequest for the client cid; ev.mask is the value_mask as a set
\* of "x", "y", "w", "h", "bw"
ClientRequest(s, cid, ev) ==
  LET c == s.clients[cid]
      m == s.mons[c.mon]
  IN  IF "bw" \in ev.mask
      THEN [s EXCEPT !.clients[cid].bw = U16(ev.border_width)]
      ELSE IF c.isfloating \/ ~Arranged(s.mons[s.selmon])
      THEN [s EXCEPT !.clients[cid] =
              Request(m, c,
                      IF "x" \in ev.mask THEN I16(m.mx + ev.x) ELSE c.x,
                      IF "y" \in ev.mask THEN I16(m.my + ev.y) ELSE c.y,
                      IF "w" \in ev.mask THEN U16(ev.width) ELSE c.w,
                      IF "h" \in ev.mask THEN U16(ev.height) ELSE c.h)]
      ELSE s

configurerequest(s, ev) ==
  IF wintoclient(s, ev.window) # NULL
  THEN ClientRequest(s, wintoclient(s, ev.window), ev)
  ELSE s

(***************************************************************************)
(* Key and button bindings.  arg.ui is a set of bits, arg.i an integer,    *)
(* arg.v an index into layouts (0: no layout given).                       *)
(***************************************************************************)
\* selmon->tagset[selmon->seltags]
CurTags(s) == s.mons[s.selmon].tagset[s.mons[s.selmon].seltags + 1]

\* selmon->seltags ^= 1
FlipSelTags(s) == [s EXCEPT !.mons[s.selmon].seltags = 1 - @]

\* selmon->tagset[selmon->seltags] = t
SetCurTags(s, t) ==
  [s EXCEPT !.mons[s.selmon].tagset[s.mons[s.selmon].seltags + 1] = t]

\* view without the test for the tagset in view
view_always(s, ui) ==
  arrange(IF (ui \cap TAGMASK) # {}
          THEN SetCurTags(FlipSelTags(s), ui \cap TAGMASK)
          ELSE FlipSelTags(s),
          s.selmon)

\* view that writes the new tagset without toggling seltags
view_noflip(s, ui) ==
  IF (ui \cap TAGMASK) = CurTags(s) THEN s
  ELSE arrange(IF (ui \cap TAGMASK) # {} THEN SetCurTags(s, ui \cap TAGMASK) ELSE s,
               s.selmon)

view(s, ui) ==
  IF (ui \cap TAGMASK) = CurTags(s) THEN s
  ELSE arrange(IF (ui \cap TAGMASK) # {}
               THEN SetCurTags(FlipSelTags(s), ui \cap TAGMASK)
               ELSE FlipSelTags(s),
               s.selmon)

\* currentset | ((currentset & 1) << LENGTH(tags))
WrapDown(cur) == cur \cup (IF 0 \in cur THEN {NumTags} ELSE {})

viewprev(s) ==
  arrange(SetCurTags(FlipSelTags(s), Shr1(WrapDown(CurTags(s)))), s.selmon)

\* currentset |= (currentset & (1LL << LENGTH(tags))) >> LENGTH(tags), on the
\* shifted set
WrapUp(cur) == cur \cup (IF NumTags \in cur THEN {0} ELSE {})

viewnext(s) ==
  arrange(SetCurTags(FlipSelTags(s), WrapUp(Shl1(CurTags(s)))), s.selmon)

toggleview(s, ui) ==
  IF BitXor(CurTags(s), ui \cap TAGMASK) # {}
  THEN arrange(SetCurTags(s, BitXor(CurTags(s), ui \cap TAGMASK)), s.selmon)
  ELSE s

\* selmon->sel->tags = t
SetSelTags(s, t) == [s EXCEPT !.clients[s.mons[s.selmon].sel].tags = t]

\* tag that leaves out arrange(selmon)
tag_noarrange(s, ui) ==
  IF s.mons[s.selmon].sel # NULL /\ (ui \cap TAGMASK) # {}
  THEN SetSelTags(s, ui \cap TAGMASK)
  ELSE s

tag(s, ui) ==
  IF s.mons[s.selmon].sel # NULL /\ (ui \cap TAGMASK) # {}
  THEN arrange(SetSelTags(s, ui \cap TAGMASK), s.selmon)
  ELSE s

toggletag(s, ui) ==
  IF s.mons[s.selmon].sel = NULL THEN s
  ELSE IF BitXor(s.clients[s.mons[s.selmon].sel].tags, ui \cap TAGMASK) # {}
  THEN arrange(SetSelTags(s, BitXor(s.clients[s.mons[s.selmon].sel].tags, ui \cap TAGMASK)),
               s.selmon)
  ELSE s

\* c->mon = m; c->tags = m->tagset[m->seltags];
Assign(s, c, mi) ==
  [s EXCEPT !.clients[c].mon = mi,
            !.clients[c].tags = s.mons[mi].tagset[s.mons[mi].seltags + 1]]

sendmon(s, c, mi) ==
  IF s.clients[c].mon = mi THEN s
  ELSE arrange(focus(attachstack(attach(
                 Assign(detachstack(detach(unfocus(s, c), c), c), c, mi), c), c),
               NULL), NULL)

tagmon(s, i) ==
  IF s.mons[s.selmon].sel = NULL \/ Len(s.mons) = 1 THEN s
  ELSE sendmon(s, s.mons[s.selmon].sel, dirtomon(s, i))

focusmon(s, i) ==
  IF Len(s.mons) = 1 THEN s
  ELSE focus([unfocus(s, s.mons[s.selmon].sel) EXCEPT !.selmon = dirtomon(s, i)], NULL)

\* for(c = list; c && !ISVISIBLE(c); c = c->next);
RECURSIVE NextVisible(_, _)
NextVisible(s, list) ==
  IF list = <<>> THEN NULL
  ELSE IF ISVISIBLE(s, Head(list)) THEN Head(list)
  ELSE NextVisible(s, Tail(list))

\* the last visible client of the list, NULL if there is none
RECURSIVE LastVisible(_, _)
LastVisible(s, list) ==
  IF list = <<>> THEN NULL
  ELSE IF ISVISIBLE(s, list[Len(list)]) THEN list[Len(list)]
  ELSE LastVisible(s, SubSeq(list, 1, Len(list) - 1))

\* the position of c in the list
Pos(list, c) == CHOOSE j \in 1 .. Len(list) : list[j] = c

\* a, or b when a is NULL
OrElse(a, b) == IF a # NULL THEN a ELSE b

\* StackTarget without the wrap around the ends of the list
StackTarget_nowrap(s, L, k, i) ==
  IF i > 0
  THEN NextVisible(s, SubSeq(L, k + 1, Len(L)))
  ELSE LastVisible(s, SubSeq(L, 1, k - 1))

\* the client focusstack picks in the client list L around position k of sel
StackTarget(s, L, k, i) ==
  IF i > 0
  THEN OrElse(NextVisible(s, SubSeq(L, k + 1, Len(L))), NextVisible(s, L))
  ELSE OrElse(LastVisible(s, SubSeq(L, 1, k - 1)), LastVisible(s, SubSeq(L, k, Len(L))))

\* if(c) { focus(c); restack(selmon); }
FocusIf(s, c) == IF c # NULL THEN focus(s, c) ELSE s

focusstack(s, i) ==
  IF s.mons[s.selmon].sel = NULL THEN s
  ELSE FocusIf(s, StackTarget(s, s.mons[s.selmon].clients,
                              Pos(s.mons[s.selmon].clients, s.mons[s.selmon].sel), i))

\* selmon->lt[selmon->sellt] = v, when a layout is given
SetLt(s, v) ==
  IF v # 0 THEN [s EXCEPT !.mons[s.selmon].lt[s.mons[s.selmon].sellt + 1] = v] ELSE s

\* selmon->sellt ^= 1, unless the layout given is the current one
FlipLt(s, v) ==
  IF v = 0 \/ v # s.mons[s.selmon].lt[s.mons[s.selmon].sellt + 1]
  THEN [s EXCEPT !.mons[s.selmon].sellt = 1 - @]
  ELSE s

setlayout(s, v) ==
  IF s.mons[s.selmon].sel # NULL
  THEN arrange(SetLt(FlipLt(s, v), v), s.selmon)
  ELSE SetLt(FlipLt(s, v), v)

\* f = arg->f < 1.0 ? arg->f + selmon->mfact : arg->f - 1.0, in hundredths
NewFact(s, f) == IF f < 100 THEN f + s.mons[s.selmon].mfact ELSE f - 100

setmfact(s, f) ==
  IF ~Arranged(s.mons[s.selmon]) THEN s
  ELSE IF NewFact(s, f) < 10 \/ NewFact(s, f) > 90 THEN s
  ELSE arrange([s EXCEPT !.mons[s.selmon].mfact = NewFact(s, f)], s.selmon)

togglebar(s) ==
  arrange([s EXCEPT !.mons[s.selmon] = updatebarpos([@ EXCEPT !.showbar = ~@])], s.selmon)

\* if(selmon->sel->isfloating) resize(selmon->sel, x, y, w, h, false);
ResizeIfFloating(s, c) ==
  IF s.clients[c].isfloating
  THEN resize(s, c, s.clients[c].x, s.clients[c].y, s.clients[c].w, s.clients[c].h, FALSE)
  ELSE s

\* togglefloating that ignores isfixed
togglefloating_plain(s) ==
  IF s.mons[s.selmon].sel = NULL THEN s
  ELSE arrange(ResizeIfFloating(
                 [s EXCEPT !.clients[s.mons[s.selmon].sel].isfloating = ~@],
                 s.mons[s.selmon].sel),
               s.selmon)

togglefloating(s) ==
  IF s.mons[s.selmon].sel = NULL THEN s
  ELSE arrange(ResizeIfFloating(
                 [s EXCEPT !.clients[s.mons[s.selmon].sel].isfloating =
                    ~@ \/ s.clients[s.mons[s.selmon].sel].isfixed],
                 s.mons[s.selmon].sel),
               s.selmon)

\* zoom from detach(c) on; detach(NULL) dereferences a null pointer and the
\* process dies
ZoomTo(s, c) ==
  IF c = NULL THEN [s EXCEPT !.crashed = TRUE]
  ELSE arrange(focus(attach(detach(s, c), c), c), s.clients[c].mon)

\* c = nexttiled(c->next) for the client c of the list L
TiledAfter(s, L, c) == nexttiled(s, SubSeq(L, Pos(L, c) + 1, Len(L)))

\* zoom after the layout test: sel is selmon->sel, L is selmon->clients
ZoomSel(s, L, sel) ==
  IF sel = nexttiled(s, L)
  THEN IF sel = NULL THEN s
       ELSE IF TiledAfter(s, L, sel) = NULL THEN s
       ELSE ZoomTo(s, TiledAfter(s, L, sel))
  ELSE ZoomTo(s, sel)

\* zoom without the test of the layout and of the floating flag
zoom_anylayout(s) == ZoomSel(s, s.mons[s.selmon].clients, s.mons[s.selmon].sel)

zoom(s) ==
  IF \/ ~Arranged(s.mons[s.selmon])
     \/ layouts[s.mons[s.selmon].lt[s.mons[s.selmon].sellt + 1]] = "monocle"
     \/ (s.mons[s.selmon].sel # NULL /\ s.clients[s.mons[s.selmon].sel].isfloating)
  THEN s
  ELSE ZoomSel(s, s.mons[s.selmon].clients, s.mons[s.selmon].sel)

\* if((m = wintomon(ev->event)) && m != selmon) { unfocus(selmon->sel); selmon = m; }
EnterMon(s, m) ==
  IF m # s.selmon THEN [unfocus(s, s.mons[s.selmon].sel) EXCEPT !.selmon = m] ELSE s

\* ev: event (the window entered), normal (mode is NORMAL), inferior
enternotify(s, ev, ptr) ==
  IF (~ev.normal \/ ev.inferior) /\ ev.event # root THEN s
  ELSE focus(EnterMon(s, wintomon(s, ev.event, ptr)), wintoclient(s, ev.event))

(***************************************************************************)
(* The state machine.                                                      *)
(***************************************************************************)
\* the globals as one record, and the step that stores a record back
St ==
  [mons |-> mons, clients |-> clients, selmon |-> selmon, focuswin |-> focuswin,
   crashed |-> crashed, sw |-> sw, sh |-> sh, ptrgrab |-> ptrgrab]

Becomes(s) ==
  /\ mons' = s.mons
  /\ clients' = s.clients
  /\ selmon' = s.selmon
  /\ focuswin' = s.focuswin
  /\ crashed' = s.crashed
  /\ sw' = s.sw
  /\ sh' = s.sh
  /\ ptrgrab' = s.ptrgrab
  /\ topbar' = topbar

\* setup(): updategeom() on the empty monitor list, then updatebars();
\* scan() finds no window
setup(xin, ptr, width, height) ==
  LET s0 == [mons |-> <<>>, clients |-> <<>>, selmon |-> 0,
             focuswin |-> root, crashed |-> FALSE, sw |-> width, sh |-> height,
             ptrgrab |-> FALSE]
  IN  updatebars(updategeom(s0, xin, ptr).s)

(***************************************************************************)
(* Inputs: screens, pointer positions, window properties.                  *)
(***************************************************************************)
Screen(i, j) == [x |-> i * ScreenW, y |-> j * ScreenH, w |-> ScreenW, h |-> ScreenH]

OneScreen == [active |-> TRUE, screens |-> <<Screen(0, 0)>>, width |-> ScreenW,
              height |-> ScreenH]

\* two heads side by side; the second head is also reported by a clone
TwoScreens == [active |-> TRUE, screens |-> <<Screen(0, 0), Screen(1, 0), Screen(1, 0)>>,
               width |-> 2 * ScreenW, height |-> ScreenH]

\* two heads, one above the other
TwoStacked == [active |-> TRUE, screens |-> <<Screen(0, 0), Screen(0, 1)>>,
               width |-> ScreenW, height |-> 2 * ScreenH]

\* the pointer in the middle of a head
PtrOn(scr) == [same_screen |-> TRUE, x |-> scr.x + (scr.w \div 2), y |-> scr.y + (scr.h \div 2)]

Ptrs(xin) == {PtrOn(xin.screens[i]) : i \in 1 .. Len(xin.screens)}

\* the pointer in the middle of a monitor dwm knows; only an event on the
\* root window asks for the pointer
PtrsNow == {[same_screen |-> TRUE, x |-> mons[i].mx + (mons[i].mw \div 2),
             y |-> mons[i].my + (mons[i].mh \div 2)] : i \in 1 .. Len(mons)}

PtrFor(w) == IF w = root THEN PtrsNow ELSE {[same_screen |-> TRUE, x |-> 0, y |-> 0]}

Wins == 1 .. MaxWin

size0 ==
  [flags |-> {}, base_width |-> 0, base_height |-> 0, min_width |-> 0, min_height |-> 0,
   max_width |-> 0, max_height |-> 0, width_inc |-> 0, height_inc |-> 0,
   min_aspect |-> <<0, 1>>, max_aspect |-> <<0, 1>>]

geo0 == [x |-> 0, y |-> 0, w |-> 200, h |-> 100, bw |-> 0]

\* an ordinary top-level window
Plain ==
  [attrs_ok |-> TRUE, override_redirect |-> FALSE, trans |-> 0, trans_err |-> FALSE,
   class_ok |-> TRUE, class |-> <<"X","T","e","r","m">>, instance |-> <<"x">>,
   name |-> <<"s","h">>, geo_ok |-> TRUE, geo |-> geo0, size |-> size0]

\* the properties met in Spec: a plain window, one whose geometry reply is
\* lost, one that is transient for a window
CoreProps ==
  {Plain, [Plain EXCEPT !.geo_ok = FALSE]} \cup {[Plain EXCEPT !.trans = w] : w \in Wins}

\* SpecLife adds rule matches, a lost WM_CLASS or attributes reply, and
\* override-redirect windows
LifeProps ==
  CoreProps \cup
  {[Plain EXCEPT !.class = <<"G","i","m","p">>],
   [Plain EXCEPT !.class = <<"F","i","r","e","f","o","x">>],
   [Plain EXCEPT !.class_ok = FALSE],
   [Plain EXCEPT !.attrs_ok = FALSE],
   [Plain EXCEPT !.override_redirect = TRUE]}

\* windows an EnterNotify can name: the root, a bar, a client on view
Enterable ==
  {root} \cup {mons[i].barwin : i \in 1 .. Len(mons)}
         \cup {clients[a].win : a \in {b \in DOMAIN clients : ISVISIBLE(St, b)}}

(***************************************************************************)
(* Actions: one per event handler and per bind.                            *)
(***************************************************************************)
MapRequest(w, p) ==
  /\ ~crashed
  /\ Cardinality(DOMAIN clients) < MaxClients
  /\ Becomes(maprequest(St, w, p))

UnmapNotify(w) == ~crashed /\ Becomes(unmapnotify(St, w))

DestroyNotify(w) == ~crashed /\ Becomes(destroynotify(St, w))

EnterNotify(ev, ptr) == ~crashed /\ Becomes(enternotify(St, ev, ptr))

ConfigureNotify(xin, ptr) ==
  /\ ~crashed
  /\ Becomes(configurenotify(St, [window |-> root, width |-> xin.width,
                                  height |-> xin.height], xin, ptr))

ConfigureRequest(ev) == ~crashed /\ Becomes(configurerequest(St, ev))

View(ui) == ~crashed /\ Becomes(view(St, ui))

ViewPrev == ~crashed /\ Becomes(viewprev(St))

ViewNext == ~crashed /\ Becomes(viewnext(St))

ToggleView(ui) == ~crashed /\ Becomes(toggleview(St, ui))

Tag(ui) == ~crashed /\ Becomes(tag(St, ui))

ToggleTag(ui) == ~crashed /\ Becomes(toggletag(St, ui))

TagMon(i) == ~crashed /\ Becomes(tagmon(St, i))

FocusMon(i) == ~crashed /\ Becomes(focusmon(St, i))

FocusStack(i) == ~crashed /\ Becomes(focusstack(St, i))

SetLayout(v) == ~crashed /\ Becomes(setlayout(St, v))

SetMFact(f) == ~crashed /\ Becomes(setmfact(St, f))

ToggleBar == ~crashed /\ Becomes(togglebar(St))

ToggleFloating == ~crashed /\ Becomes(togglefloating(St))

Zoom == ~crashed /\ Becomes(zoom(St))

(***************************************************************************)
(* Spec: clients, monitors, tags and focus on one or two monitors.         *)
(***************************************************************************)
\* the globals are those of the record s
Starts(s) ==
  /\ mons = s.mons
  /\ clients = s.clients
  /\ selmon = s.selmon
  /\ focuswin = s.focuswin
  /\ crashed = s.crashed
  /\ sw = s.sw
  /\ sh = s.sh
  /\ ptrgrab = s.ptrgrab

Init ==
  /\ topbar = TRUE
  /\ hist = <<>>
  /\ \E xin \in {OneScreen, TwoScreens} : \E ptr \in Ptrs(xin) :
       Starts(setup(xin, ptr, xin.width, xin.height))

CoreUi == {{0}, {8}}

Dirs == {-1, 1}

Entered(w) == [event |-> w, normal |-> TRUE, inferior |-> FALSE]

Next ==
  \/ \E w \in Wins : \E p \in CoreProps : MapRequest(w, p) /\ UNCHANGED hist
  \/ \E w \in Wins : UnmapNotify(w) /\ UNCHANGED hist
  \/ \E w \in Wins : DestroyNotify(w) /\ UNCHANGED hist
  \/ \E w \in Enterable : \E ptr \in PtrFor(w) :
       EnterNotify(Entered(w), ptr) /\ UNCHANGED hist
  \/ \E xin \in {OneScreen, TwoScreens} : \E ptr \in Ptrs(xin) :
       ConfigureNotify(xin, ptr) /\ UNCHANGED hist
  \/ \E ui \in CoreUi : View(ui) /\ UNCHANGED hist
  \/ Tag({8}) /\ UNCHANGED hist
  \/ \E i \in Dirs : TagMon(i) /\ UNCHANGED hist
  \/ \E i \in Dirs : FocusMon(i) /\ UNCHANGED hist
  \/ \E i \in Dirs : FocusStack(i) /\ UNCHANGED hist
  \/ Zoom /\ UNCHANGED hist

Spec == Init /\ [][Next]_vars

(***************************************************************************)
(* SpecLife: the life of a window.  hist holds the handler that ran last:  *)
(* its name, the window of its event, and whether that window was managed  *)
(* when the event arrived.                                                 *)
(***************************************************************************)
Ran(op, w) ==
  hist' = <<[op |-> op, win |-> w, managed |-> wintoclient(St, w) # NULL]>>

NextLife ==
  \/ \E w \in Wins : \E p \in LifeProps : MapRequest(w, p) /\ Ran("maprequest", w)
  \/ \E w \in Wins : UnmapNotify(w) /\ Ran("unmapnotify", w)
  \/ \E w \in Wins : DestroyNotify(w) /\ Ran("destroynotify", w)
  \/ \E w \in Enterable : \E ptr \in PtrFor(w) :
       EnterNotify(Entered(w), ptr) /\ Ran("enternotify", w)
  \/ \E xin \in {OneScreen, TwoScreens} : \E ptr \in Ptrs(xin) :
       ConfigureNotify(xin, ptr) /\ Ran("configurenotify", root)
  \/ \E i \in Dirs : TagMon(i) /\ Ran("tagmon", root)
  \/ \E i \in Dirs : FocusMon(i) /\ Ran("focusmon", root)
  \/ Zoom /\ Ran("zoom", root)

SpecLife == Init /\ [][NextLife]_vars

(***************************************************************************)
(* Properties of Spec and SpecLife.                                        *)
(***************************************************************************)
\* how often c occurs in a list
Count(list, c) == Cardinality({k \in 1 .. Len(list) : list[k] = c})

\* C1: every client record is in the client list of exactly one monitor and
\* in the focus stack of exactly one monitor, once in each, and that monitor
\* is the one its mon field names; the lists hold nothing but client records
C1_OneListOneStack ==
  /\ \A a \in DOMAIN clients :
       /\ clients[a].mon \in 1 .. Len(mons)
       /\ \A i \in 1 .. Len(mons) :
            /\ Count(mons[i].clients, a) = (IF i = clients[a].mon THEN 1 ELSE 0)
            /\ Count(mons[i].stack, a) = (IF i = clients[a].mon THEN 1 ELSE 0)
  /\ \A i \in 1 .. Len(mons) :
       /\ \A k \in 1 .. Len(mons[i].clients) : mons[i].clients[k] \in DOMAIN clients
       /\ \A k \in 1 .. Len(mons[i].stack) : mons[i].stack[k] \in DOMAIN clients

\* two monitors, each with a client in its lists
C1_Witness ==
  /\ Len(mons) = 2
  /\ mons[1].clients # <<>>
  /\ mons[2].clients # <<>>

\* C2: the window holding the input focus is the window of selmon->sel, or
\* the root window when selmon->sel is null
C2_FocusIsSel ==
  focuswin = (IF mons[selmon].sel # NULL THEN clients[mons[selmon].sel].win ELSE root)

\* C3: on every monitor sel is null, or a client in that monitor's focus
\* stack that is visible
C3_SelVisible ==
  \A i \in 1 .. Len(mons) :
    mons[i].sel # NULL =>
      /\ mons[i].sel \in DOMAIN clients
      /\ Count(mons[i].stack, mons[i].sel) > 0
      /\ ISVISIBLE(St, mons[i].sel)

\* a monitor with a selected client and a hidden client in its focus stack
C3_Witness ==
  \E i \in 1 .. Len(mons) :
    /\ mons[i].sel # NULL
    /\ \E k \in 1 .. Len(mons[i].stack) : ~ISVISIBLE(St, mons[i].stack[k])

\* C4: on every monitor, selected or not, a non-null sel is the first visible
\* client of the focus stack
C4_SelIsTopVisible ==
  \A i \in 1 .. Len(mons) :
    mons[i].sel # NULL => mons[i].sel = FirstVisible(St, mons[i].stack)

\* the client records of window w
Records(w) == {a \in DOMAIN clients : clients[a].win = w}

\* the addresses linked in some client list or focus stack
Linked ==
  UNION {{mons[i].clients[k] : k \in 1 .. Len(mons[i].clients)}
         \cup {mons[i].stack[k] : k \in 1 .. Len(mons[i].stack)} : i \in 1 .. Len(mons)}

\* C5: no window has more than one client record; after the UnmapNotify or
\* DestroyNotify handler the window of the event has no record and is in no
\* list; a MapRequest for a managed window leaves it with its one record
C5_OneRecordPerWindow ==
  /\ \A w \in Wins : Cardinality(Records(w)) <= 1
  /\ \A k \in 1 .. Len(hist) :
       /\ hist[k].op \in {"unmapnotify", "destroynotify"} =>
            /\ Records(hist[k].win) = {}
            /\ \A a \in Linked : a \in DOMAIN clients /\ clients[a].win # hist[k].win
       /\ (hist[k].op = "maprequest" /\ hist[k].managed) =>
            Cardinality(Records(hist[k].win)) = 1

\* the UnmapNotify handler ran for a managed window while another client stays
C5_Witness ==
  /\ hist # <<>>
  /\ hist[1].op = "unmapnotify"
  /\ hist[1].managed
  /\ DOMAIN clients # {}

(***************************************************************************)
(* SpecTags: the tag masks of clients under the view and tag binds.  hist  *)
(* counts the toggleview calls.                                            *)
(***************************************************************************)
Firefox == [Plain EXCEPT !.class = <<"F","i","r","e","f","o","x">>]

Toggled == hist' = Append(hist, [op |-> "toggleview", win |-> root, managed |-> FALSE])

\* the view binds are pressed while no window is managed
NextTags ==
  \/ \E p \in {Plain, Firefox} : MapRequest(1, p) /\ UNCHANGED hist
  \/ UnmapNotify(1) /\ UNCHANGED hist
  \/ \E xin \in {OneScreen, TwoScreens} :
       ConfigureNotify(xin, PtrOn(xin.screens[1])) /\ UNCHANGED hist
  \/ DOMAIN clients = {} /\ ViewNext /\ UNCHANGED hist
  \/ DOMAIN clients = {} /\ ViewPrev /\ UNCHANGED hist
  \/ DOMAIN clients = {} /\ Len(hist) < MaxToggles /\ ToggleView({0}) /\ Toggled
  \/ Tag({8}) /\ UNCHANGED hist
  \/ ToggleTag({0}) /\ UNCHANGED hist
  \/ TagMon(1) /\ UNCHANGED hist

SpecTags == Init /\ [][NextTags]_vars

\* C6: every client attached by manage has a nonzero tag mask, whatever
\* sequence of binds and monitor changes follows
C6_TagsNonzero == \A a \in DOMAIN clients : clients[a].tags # {}

(***************************************************************************)
(* SpecGeom: geometry of monitors, bars and tiled clients, with the bar at *)
(* the top or at the bottom and two heads one above the other.  hist holds *)
(* by, wy and wh of the selected monitor as they were before each of the   *)
(* last togglebar calls made in a row.                                     *)
(***************************************************************************)
\* size hints: a minimum size wider than a head, resize increments on a base
\* size, a fixed aspect ratio
Wide == [size0 EXCEPT !.flags = {"min"}, !.min_width = ScreenW + 200, !.min_height = 100]

Stepped == [size0 EXCEPT !.flags = {"base", "inc"}, !.base_width = 4, !.base_height = 4,
                         !.width_inc = 7, !.height_inc = 13]

Square == [size0 EXCEPT !.flags = {"aspect"}, !.min_aspect = <<1, 1>>, !.max_aspect = <<1, 1>>]

GeomProps == {Plain} \cup {[Plain EXCEPT !.size = z] : z \in {Wide, Stepped, Square}}

\* a request for a border of 5 pixels
Requests(w) ==
  {[window |-> w, mask |-> {"bw"}, x |-> 0, y |-> 0, width |-> 0, height |-> 0,
    border_width |-> 5]}

InitGeom ==
  /\ topbar \in BOOLEAN
  /\ hist = <<>>
  /\ \E xin \in {OneScreen, TwoStacked} : \E ptr \in Ptrs(xin) :
       Starts(setup(xin, ptr, xin.width, xin.height))

\* keep the last MaxHist entries
Log(e) == hist' = IF Len(hist) < MaxHist THEN Append(hist, e) ELSE Append(Tail(hist), e)

BarBefore ==
  Log([op |-> "togglebar", by |-> mons[selmon].by, wy |-> mons[selmon].wy,
       wh |-> mons[selmon].wh])

NextGeom ==
  \/ \E p \in GeomProps : MapRequest(1, p) /\ hist' = <<>>
  \/ MapRequest(2, Plain) /\ hist' = <<>>
  \/ \E ev \in Requests(1) : ConfigureRequest(ev) /\ hist' = <<>>
  \/ \E xin \in {OneScreen, TwoStacked} : \E ptr \in Ptrs(xin) :
       ConfigureNotify(xin, ptr) /\ hist' = <<>>
  \/ \E v \in {1, 3} : SetLayout(v) /\ hist' = <<>>
  \/ \E w \in Wins : UnmapNotify(w) /\ hist' = <<>>
  \/ FocusMon(1) /\ hist' = <<>>
  \/ ToggleBar /\ BarBefore

SpecGeom == InitGeom /\ [][NextGeom]_vars

\* the rectangle of client a with its border lies inside the work area of m
InWorkArea(m, a) ==
  /\ clients[a].x >= m.wx
  /\ clients[a].y >= m.wy
  /\ clients[a].x + WIDTH(clients[a]) <= m.wx + m.ww
  /\ clients[a].y + HEIGHT(clients[a]) <= m.wy + m.wh

\* C7: on every monitor whose layout has an arrange function every visible
\* non-floating client, with its border, lies inside the work area
C7_TiledInWorkArea ==
  \A a \in DOMAIN clients :
    (Arranged(mons[clients[a].mon]) /\ ISVISIBLE(St, a) /\ ~clients[a].isfloating)
      => InWorkArea(mons[clients[a].mon], a)

\* C8: the bar position and the work area of every monitor follow showbar
\* and topbar, and two togglebar calls in a row restore by, wy and wh
C8_BarGeometry ==
  /\ \A i \in 1 .. Len(mons) :
       /\ mons[i].wx = mons[i].mx /\ mons[i].ww = mons[i].mw
       /\ ~mons[i].showbar =>
            mons[i].by < 0 /\ mons[i].wy = mons[i].my /\ mons[i].wh = mons[i].mh
       /\ mons[i].showbar =>
            /\ mons[i].by = (IF mons[i].topbar THEN mons[i].my
                             ELSE mons[i].my + mons[i].mh - bh)
            /\ mons[i].wh = mons[i].mh - bh
            /\ mons[i].wy = (IF mons[i].topbar THEN mons[i].my + bh ELSE mons[i].my)
  /\ Len(hist) >= 2 =>
       /\ mons[selmon].by = hist[Len(hist) - 1].by
       /\ mons[selmon].wy = hist[Len(hist) - 1].wy
       /\ mons[selmon].wh = hist[Len(hist) - 1].wh

\* togglebar ran twice in a row on the lower head with the bar at the bottom
C8_Witness ==
  /\ Len(hist) >= 2
  /\ ~topbar
  /\ mons[selmon].my > 0
  /\ mons[selmon].showbar

(***************************************************************************)
(* SpecView: the view binds.  hist holds the last view calls made in a row *)
(* on the selected monitor: the argument, and seltags and tagset as they   *)
(* were before the call.                                                   *)
(***************************************************************************)
\* arguments of view: none, one tag, all bits (~0), a bit above the tags
ViewUi == {{}, {0}, {1}, AllBits, {NumTags}}

ViewBefore(ui) ==
  Log([op |-> "view", ui |-> ui, seltags |-> mons[selmon].seltags,
       tagset |-> mons[selmon].tagset])

NextView ==
  \/ \E ui \in ViewUi : View(ui) /\ ViewBefore(ui)
  \/ MapRequest(1, Plain) /\ hist' = <<>>
  \/ UnmapNotify(1) /\ hist' = <<>>

SpecView == Init /\ [][NextView]_vars

\* the k-th last view call of hist
Call(k) == hist[Len(hist) + 1 - k]

\* the tagset that was current before the k-th last view call
CurBefore(k) == Call(k).tagset[Call(k).seltags + 1]

\* seltags and both tagset slots are as they were before the last view call
LastViewWasNoop ==
  /\ mons[selmon].seltags = Call(1).seltags
  /\ mons[selmon].tagset = Call(1).tagset

\* C9 as stated: for every argument a, zero masks included, a second view(a)
\* changes neither seltags nor a tagset slot
C9_ViewTwice_Stated ==
  (Len(hist) >= 2 /\ Call(1).ui = Call(2).ui) => LastViewWasNoop

\* C9: for every argument a with a & TAGMASK nonzero, a second view(a)
\* changes neither seltags nor a tagset slot
C9_ViewTwice ==
  (Len(hist) >= 2 /\ Call(1).ui = Call(2).ui /\ (Call(1).ui \cap TAGMASK) # {})
    => LastViewWasNoop

\* view(a) ran twice in a row with a tag the monitor did not show before
C9_Witness ==
  /\ Len(hist) >= 2
  /\ Call(1).ui = {1}
  /\ Call(2).ui = {1}
  /\ CurBefore(2) # {1}

\* the current tagset is the one before the second last call, a & TAGMASK
BackToFirst ==
  /\ CurTags(St) = CurBefore(2)
  /\ CurTags(St) = Call(3).ui \cap TAGMASK

ToggleUi == {{0}, {1}}

ToggleBefore(ui) ==
  Log([op |-> "toggleview", ui |-> ui, seltags |-> mons[selmon].seltags,
       tagset |-> mons[selmon].tagset])

NextToggle ==
  \/ Len(hist) < MaxHist - 1 /\ ViewNext /\ UNCHANGED hist
  \/ \E ui \in ToggleUi : Len(hist) < MaxHist /\ ToggleView(ui) /\ ToggleBefore(ui)

SpecToggle == Init /\ [][NextToggle]_vars

\* C11: two toggleview(x) calls in a row on the tagset t: if t XOR
\* (x & TAGMASK) is nonzero the current tagset is t again, and if it is zero
\* the first call changed nothing
C11_ToggleTwice ==
  (Len(hist) = MaxHist /\ Call(1).ui = Call(2).ui) =>
    IF BitXor(CurBefore(2), Call(2).ui \cap TAGMASK) # {}
    THEN CurTags(St) = CurBefore(2)
    ELSE CurBefore(1) = CurBefore(2) /\ Call(1).seltags = Call(2).seltags

(***************************************************************************)
(* SpecHints: resize as a function of the client and the proposed          *)
(* geometry.  hist holds the last resize call: the window and the proposed *)
(* x, y, w, h and interact.                                                *)
(***************************************************************************)
\* proposed geometries: inside the head, beyond its right and lower edge,
\* left of it; widths that the size hints change or keep
ResizeArgs ==
  [x : {0, ScreenW + 100, -400}, y : {16, ScreenH + 100}, w : {0, 50, 200}, h : {100},
   interact : BOOLEAN]

\* resize(c, x, y, w, h, interact) for the client of window w
Resize(w, a) ==
  /\ ~crashed
  /\ wintoclient(St, w) # NULL
  /\ Becomes(resize(St, wintoclient(St, w), a.x, a.y, a.w, a.h, a.interact))

NextHints ==
  \/ \E p \in GeomProps : MapRequest(1, p) /\ hist' = <<>>
  \/ UnmapNotify(1) /\ hist' = <<>>
  \/ \E a \in ResizeArgs : Resize(1, a) /\ hist' = <<[op |-> "resize", win |-> 1, args |-> a]>>

SpecHints == Init /\ [][NextHints]_vars

\* applysizehints returns 0 for the client c and the answer r
Unchanged(c, r) == r.x = c.x /\ r.y = c.y /\ r.w = c.w /\ r.h = c.h

\* C12: after resize has stored the result of applysizehints, a second
\* applysizehints call with the same proposed x, y, w, h and interact
\* returns 0
C12_HintsIdempotent ==
  hist # <<>> =>
    Unchanged(clients[wintoclient(St, hist[1].win)],
              applysizehints(St, wintoclient(St, hist[1].win), hist[1].args.x,
                             hist[1].args.y, hist[1].args.w, hist[1].args.h,
                             hist[1].args.interact))

(***************************************************************************)
(* movemouse, resizemouse: the modal loops, fed with motion events only.   *)
(***************************************************************************)
\* movemouse: the snap of nx to the left or right edge of the work area
SnapX(m, c, nx) ==
  IF abs(m.wx - nx) < snap THEN m.wx
  ELSE IF abs((m.wx + m.ww) - (nx + WIDTH(c))) < snap THEN m.wx + m.ww - WIDTH(c)
  ELSE nx

SnapY(m, c, ny) ==
  IF abs(m.wy - ny) < snap THEN m.wy
  ELSE IF abs((m.wy + m.wh) - (ny + HEIGHT(c))) < snap THEN m.wy + m.wh - HEIGHT(c)
  ELSE ny

\* snap && a >= wx && a <= wx + ww && b >= wy && b <= wy + wh
InSnapArea(m, a, b) ==
  snap # 0 /\ a >= m.wx /\ a <= m.wx + m.ww /\ b >= m.wy /\ b <= m.wy + m.wh

\* if(!c->isfloating && arrange && (abs(a - ca) > snap || abs(b - cb) > snap))
\*   togglefloating(NULL);
PullOut(s, c, da, db) ==
  IF ~s.clients[c].isfloating /\ Arranged(s.mons[s.selmon])
     /\ (abs(da) > snap \/ abs(db) > snap)
  THEN togglefloating(s)
  ELSE s

\* if(!arrange || c->isfloating) resize(c, nx, ny, c->w, c->h, true)
MoveTo(s, c, nx, ny) ==
  IF ~Arranged(s.mons[s.selmon]) \/ s.clients[c].isfloating
  THEN resize(s, c, nx, ny, s.clients[c].w, s.clients[c].h, TRUE)
  ELSE s

\* one XCB_MOTION_NOTIFY of movemouse with nx, ny computed
MoveMotion(s, c, nx, ny) ==
  IF InSnapArea(s.mons[s.selmon], nx, ny)
  THEN MoveTo(PullOut(s, c,
                      SnapX(s.mons[s.selmon], s.clients[c], nx) - s.clients[c].x,
                      SnapY(s.mons[s.selmon], s.clients[c], ny) - s.clients[c].y),
              c, I16(SnapX(s.mons[s.selmon], s.clients[c], nx)),
              I16(SnapY(s.mons[s.selmon], s.clients[c], ny)))
  ELSE MoveTo(s, c, nx, ny)

\* xcb_event_handle(&evenths, ev) for the event types the model knows
Handle(s, e) ==
  CASE e.type = "map_request" -> maprequest(s, e.window, e.p)
    [] e.type = "configure_request" -> configurerequest(s, e.req)
    [] e.type = "unmap_notify" -> unmapnotify(s, e.window)
    [] e.type = "destroy_notify" -> destroynotify(s, e.window)
    [] OTHER -> s

\* the event types the switch of the modal loops hands to xcb_event_handle
Reentrant == {"configure_request", "expose", "map_request"}

\* one round of the loop of movemouse: e is the event xcb_wait_for_event
\* returned; an event of a type the switch does not name is freed
MoveEvent(s, c, oc, p, e) ==
  IF e.type = "motion"
  THEN MoveMotion(s, c, I16(oc[1] + (e.x - p.x)), I16(oc[2] + (e.y - p.y)))
  ELSE IF e.type \in Reentrant THEN Handle(s, e)
  ELSE s

\* the loop of movemouse over the events evs that come before the button
\* release; oc is <<ocx, ocy>>, p the pointer that getrootptr gave
RECURSIVE MoveLoop(_, _, _, _, _)
MoveLoop(s, c, oc, p, evs) ==
  IF evs = <<>> THEN s
  ELSE MoveLoop(MoveEvent(s, c, oc, p, Head(evs)), c, oc, p, Tail(evs))

\* if((m = ptrtomon(c->x + c->w / 2, c->y + c->h / 2)) != selmon)
\*   { sendmon(c, m); selmon = m; focus(NULL); }
Drop(s, c, mi) ==
  IF mi # s.selmon THEN focus([sendmon(s, c, mi) EXCEPT !.selmon = mi], NULL) ELSE s

AfterDrag(s, c) ==
  Drop(s, c, ptrtomon(s, s.clients[c].x + (s.clients[c].w \div 2),
                      s.clients[c].y + (s.clients[c].h \div 2)))

\* xcb_ungrab_pointer, then the move to the monitor under the client
Release(s, c) == AfterDrag([s EXCEPT !.ptrgrab = FALSE], c)

\* grabbed: the pointer grab succeeded; p: the reply to the pointer query
movemouse(s, grabbed, p, evs) ==
  IF s.mons[s.selmon].sel = NULL \/ ~grabbed THEN s
  ELSE IF ~p.same_screen THEN [s EXCEPT !.ptrgrab = TRUE]
  ELSE Release(MoveLoop([s EXCEPT !.ptrgrab = TRUE], s.mons[s.selmon].sel,
                        <<s.clients[s.mons[s.selmon].sel].x,
                          s.clients[s.mons[s.selmon].sel].y>>, p, evs),
               s.mons[s.selmon].sel)

\* if(!arrange || c->isfloating) resize(c, c->x, c->y, nw, nh, true)
SizeTo(s, c, nw, nh) ==
  IF ~Arranged(s.mons[s.selmon]) \/ s.clients[c].isfloating
  THEN resize(s, c, s.clients[c].x, s.clients[c].y, nw, nh, TRUE)
  ELSE s

\* one XCB_MOTION_NOTIFY of resizemouse with nw, nh computed
ResizeMotion(s, c, nw, nh) ==
  IF InSnapArea(s.mons[s.selmon], nw, nh)
  THEN SizeTo(PullOut(s, c, nw - s.clients[c].w, nh - s.clients[c].h), c, nw, nh)
  ELSE SizeTo(s, c, nw, nh)

\* one round of the loop of resizemouse
ResizeEvent(s, c, oc, e) ==
  IF e.type = "motion"
  THEN ResizeMotion(s, c, U16(MAX(e.x - oc[1] - 2 * s.clients[c].bw + 1, 1)),
                    U16(MAX(e.y - oc[2] - 2 * s.clients[c].bw + 1, 1)))
  ELSE IF e.type \in Reentrant THEN Handle(s, e)
  ELSE s

RECURSIVE ResizeLoop(_, _, _, _)
ResizeLoop(s, c, oc, evs) ==
  IF evs = <<>> THEN s
  ELSE ResizeLoop(ResizeEvent(s, c, oc, Head(evs)), c, oc, Tail(evs))

\* the pointer after xcb_warp_pointer(.., c->win, .., c->w + c->bw - 1,
\* c->h + c->bw - 1): the origin of c->win lies inside the border
Warped(c) == [same_screen |-> TRUE, x |-> c.x + c.bw + c.w + c.bw - 1,
              y |-> c.y + c.bw + c.h + c.bw - 1]

resizemouse(s, grabbed, evs) ==
  IF s.mons[s.selmon].sel = NULL \/ ~grabbed THEN s
  ELSE Release(ResizeLoop([s EXCEPT !.ptrgrab = TRUE], s.mons[s.selmon].sel,
                          <<s.clients[s.mons[s.selmon].sel].x,
                            s.clients[s.mons[s.selmon].sel].y>>, evs),
               s.mons[s.selmon].sel)

(***************************************************************************)
(* SpecMouse: a window is dragged or resized with the pointer, and the     *)
(* last motion event is where the pointer started.                         *)
(***************************************************************************)
\* a window asking for a place 10 pixels off the corner of the work area
Near == [Plain EXCEPT !.geo = [geo0 EXCEPT !.x = 10, !.y = 10]]

\* how far the pointer goes before it comes back
Strays == {<<>>, <<<<3, 3>>>>, <<<<200, 100>>>>, <<<<ScreenW, 0>>>>}

\* an event of the modal loops: the pointer at x, y; a request or a notify
\* for window w whose properties are pr
NoRequest ==
  [window |-> root, mask |-> {}, x |-> 0, y |-> 0, width |-> 0, height |-> 0,
   border_width |-> 0]

Motion(x, y) ==
  [type |-> "motion", x |-> x, y |-> y, window |-> root, p |-> Plain, req |-> NoRequest]

About(type, w, pr) ==
  [type |-> type, x |-> 0, y |-> 0, window |-> w, p |-> pr, req |-> NoRequest]

\* the motion events of a pointer that starts at p, strays and comes back
Motions(p, stray) ==
  IF stray = <<>> THEN <<Motion(p.x, p.y)>>
  ELSE <<Motion(p.x + stray[1][1], p.y + stray[1][2]), Motion(p.x, p.y)>>

\* the pointer on the middle of the client c
Over(c) == [same_screen |-> TRUE, x |-> c.x + (WIDTH(c) \div 2), y |-> c.y + (HEIGHT(c) \div 2)]

Entry(op) ==
  hist' = <<[op |-> op, c |-> mons[selmon].sel,
             before |-> IF mons[selmon].sel = NULL THEN <<>>
                        ELSE clients[mons[selmon].sel]]>>

MoveMouse(p, evs) == ~crashed /\ Becomes(movemouse(St, TRUE, p, evs))

ResizeMouse(evs) == ~crashed /\ Becomes(resizemouse(St, TRUE, evs))

NextMouse ==
  \/ \E w \in Wins : \E p \in {Plain, Near} : MapRequest(w, p) /\ hist' = <<>>
  \/ \E w \in Wins : UnmapNotify(w) /\ hist' = <<>>
  \/ \E xin \in {OneScreen, TwoScreens} : \E ptr \in Ptrs(xin) :
       ConfigureNotify(xin, ptr) /\ hist' = <<>>
  \/ \E v \in {1, 2} : SetLayout(v) /\ hist' = <<>>
  \/ ToggleFloating /\ hist' = <<>>
  \/ \E stray \in Strays :
       /\ mons[selmon].sel # NULL
       /\ MoveMouse(Over(clients[mons[selmon].sel]),
                    Motions(Over(clients[mons[selmon].sel]), stray))
       /\ Entry("movemouse")
  \/ \E stray \in Strays :
       /\ mons[selmon].sel # NULL
       /\ ResizeMouse(Motions(Warped(clients[mons[selmon].sel]), stray))
       /\ Entry("resizemouse")
  \/ mons[selmon].sel = NULL /\ MoveMouse(PtrOn(Screen(0, 0)), <<>>) /\ Entry("movemouse")
  \/ mons[selmon].sel = NULL /\ ResizeMouse(<<>>) /\ Entry("resizemouse")

SpecMouse == Init /\ [][NextMouse]_vars

\* the client at address c has the x, y, w, h and floating flag of b
SameFrame(c, b) ==
  /\ c \in DOMAIN clients
  /\ clients[c].x = b.x /\ clients[c].y = b.y /\ clients[c].w = b.w /\ clients[c].h = b.h
  /\ clients[c].isfloating = b.isfloating

\* C13: when the last motion event of movemouse or resizemouse is at the
\* pointer position of the start of the modal, the client's x, y, w, h and
\* floating flag on exit are those on entry
C13_DragBack ==
  (hist # <<>> /\ hist[1].c # NULL) => SameFrame(hist[1].c, hist[1].before)

(***************************************************************************)
(* SpecTile: up to MaxTiled plain windows tiled on one head whose height   *)
(* goes down to a few pixels more than the bar.                            *)
(***************************************************************************)
MaxTiled == 3

\* one head of the usual width and h pixels high
Low(h) == [active |-> TRUE, screens |-> <<[x |-> 0, y |-> 0, w |-> ScreenW, h |-> h]>>,
           width |-> ScreenW, height |-> h]

Heights == {ScreenH, 56, 40, 24}

InitTile ==
  /\ topbar = TRUE
  /\ hist = <<>>
  /\ \E h \in Heights : Starts(setup(Low(h), PtrOn(Low(h).screens[1]), ScreenW, h))

MapTiled(w) ==
  /\ ~crashed
  /\ Cardinality(DOMAIN clients) < MaxTiled
  /\ Becomes(maprequest(St, w, Plain))

\* hist: the windows managed by the MapRequests since the last other event
Mapped(w) == hist' = IF wintoclient(St, w) = NULL THEN Append(hist, w) ELSE hist

NextTile ==
  \/ \E w \in 1 .. MaxTiled : MapTiled(w) /\ Mapped(w)
  \/ \E w \in 1 .. MaxTiled : UnmapNotify(w) /\ hist' = <<>>
  \/ \E h \in Heights : ConfigureNotify(Low(h), PtrOn(Low(h).screens[1])) /\ hist' = <<>>
  \/ FocusStack(1) /\ hist' = <<>>
  \/ Zoom /\ hist' = <<>>

SpecTile == InitTile /\ [][NextTile]_vars

\* the rectangles of two clients, borders included, share no pixel
Apart(a, b) ==
  \/ a.x + WIDTH(a) <= b.x \/ b.x + WIDTH(b) <= a.x
  \/ a.y + HEIGHT(a) <= b.y \/ b.y + HEIGHT(b) <= a.y

RECURSIVE AreaSum(_)
AreaSum(list) ==
  IF list = <<>> THEN 0
  ELSE WIDTH(clients[Head(list)]) * HEIGHT(clients[Head(list)]) + AreaSum(Tail(list))

\* the tiled clients tl of the monitor m are pairwise disjoint and their
\* areas add up to the work area
Partition(m, tl) ==
  /\ \A i, j \in 1 .. Len(tl) : i < j => Apart(clients[tl[i]], clients[tl[j]])
  /\ AreaSum(tl) = m.ww * m.wh

\* C14: tile leaves the visible non-floating clients (none with size hints)
\* in pairwise disjoint rectangles, borders included, whose areas sum to
\* ww * wh, whatever the size of the work area
C14_TilePartition ==
  \A i \in 1 .. Len(mons) :
    (layouts[mons[i].lt[mons[i].sellt + 1]] = "tile" /\ Tiled(St, mons[i].clients) # <<>>)
      => Partition(mons[i], Tiled(St, mons[i].clients))

\* the client of window w is the master of monitor m: the first tiled client
\* of the client list, at the corner of the work area
IsMaster(m, w) ==
  /\ nexttiled(St, m.clients) = wintoclient(St, w)
  /\ clients[wintoclient(St, w)].x = m.wx /\ clients[wintoclient(St, w)].y = m.wy

\* the client of window w is tiled in the stack column of monitor m
InStack(m, w) ==
  /\ wintoclient(St, w) # nexttiled(St, m.clients)
  /\ Pos(Tiled(St, m.clients), wintoclient(St, w)) > 1
  /\ clients[wintoclient(St, w)].x = m.wx + MasterWidth(m)

\* three MapRequests in a row have filled the empty monitor
ThreeMapped == Len(hist) = 3 /\ Cardinality(DOMAIN clients) = 3

InitZoom ==
  /\ topbar = TRUE
  /\ hist = <<>>
  /\ Starts(setup(OneScreen, PtrOn(Screen(0, 0)), ScreenW, ScreenH))

NextZoom ==
  \/ \E w \in 1 .. MaxTiled :
       w = Cardinality(DOMAIN clients) + 1 /\ MapTiled(w) /\ hist' = <<>>
  \/ \E v \in 1 .. Len(layouts) : SetLayout(v) /\ hist' = <<>>
  \/ ToggleFloating /\ hist' = <<>>
  \/ FocusStack(1) /\ hist' = <<>>
  \/ Zoom /\ hist' = <<[op |-> "zoom", before |-> St]>>

SpecZoom == InitZoom /\ [][NextZoom]_vars

\* in the state b the layout of the selected monitor is tile and its
\* selected client is visible, not floating and not the master
ZoomsUp(b) ==
  /\ layouts[b.mons[b.selmon].lt[b.mons[b.selmon].sellt + 1]] = "tile"
  /\ b.mons[b.selmon].sel # NULL
  /\ ~b.clients[b.mons[b.selmon].sel].isfloating
  /\ ISVISIBLE(b, b.mons[b.selmon].sel)
  /\ b.mons[b.selmon].sel # nexttiled(b, b.mons[b.selmon].clients)

\* in the state b the layout is floating or monocle, or the selected client
\* is floating
ZoomIdle(b) ==
  \/ layouts[b.mons[b.selmon].lt[b.mons[b.selmon].sellt + 1]] \in {"NULL", "monocle"}
  \/ (b.mons[b.selmon].sel # NULL /\ b.clients[b.mons[b.selmon].sel].isfloating)

\* C16: zoom on a selected visible tiled client c that is not the master
\* moves c to the head of the client list, keeps the order of the other
\* clients and keeps c selected; zoom changes nothing under the floating or
\* monocle layout or when the selected client is floating
C16_Zoom ==
  hist # <<>> =>
    /\ ZoomsUp(hist[1].before) =>
         /\ mons[selmon].clients =
              <<hist[1].before.mons[selmon].sel>> \o
                Unlink(hist[1].before.mons[selmon].clients, hist[1].before.mons[selmon].sel)
         /\ nexttiled(St, mons[selmon].clients) = hist[1].before.mons[selmon].sel
         /\ mons[selmon].sel = hist[1].before.mons[selmon].sel
         /\ selmon = hist[1].before.selmon
    /\ ZoomIdle(hist[1].before) => St = hist[1].before

\* zoom was called on the last of three tiled clients
C16_Witness ==
  /\ hist # <<>>
  /\ ZoomsUp(hist[1].before)
  /\ Len(Tiled(hist[1].before, hist[1].before.mons[selmon].clients)) = 3
  /\ hist[1].before.mons[selmon].clients[3] = hist[1].before.mons[selmon].sel

\* zoom was called under the monocle layout with a second client selected
C16_WitnessIdle ==
  /\ hist # <<>>
  /\ layouts[hist[1].before.mons[selmon].lt[hist[1].before.mons[selmon].sellt + 1]] = "monocle"
  /\ Len(hist[1].before.mons[selmon].clients) > 1
  /\ hist[1].before.mons[selmon].sel # NULL
  /\ hist[1].before.mons[selmon].sel # hist[1].before.mons[selmon].clients[1]

(***************************************************************************)
(* SpecTrans: windows that are transient for a managed window.  hist holds *)
(* the last such window, its parent P as it was when manage was called,    *)
(* and the geometry manage left.                                           *)
(***************************************************************************)
TransProps ==
  {Plain, Firefox} \cup {[p EXCEPT !.trans = w] : p \in {Plain, Firefox}, w \in Wins}

\* x, y, w, h of a client
Frame(c) == <<c.x, c.y, c.w, c.h>>

\* the state the step leads to
Later ==
  [mons |-> mons', clients |-> clients', selmon |-> selmon', focuswin |-> focuswin',
   crashed |-> crashed', sw |-> sw', sh |-> sh', ptrgrab |-> ptrgrab']

\* window w with the properties p is managed by this MapRequest, as a
\* transient for a managed window
ManagedFor(w, p) ==
  /\ wintoclient(St, w) = NULL
  /\ p.trans # 0 /\ wintoclient(St, p.trans) # NULL

\* the entry of an earlier manage, while its window is managed
Aged ==
  IF hist # <<>> /\ wintoclient(Later, hist[1].win) # NULL
  THEN <<[hist[1] EXCEPT !.fresh = FALSE]>>
  ELSE <<>>

Adopted(w, p) ==
  hist' = IF ManagedFor(w, p)
          THEN <<[win |-> w, fresh |-> TRUE,
                  P |-> clients[wintoclient(St, p.trans)],
                  pvis |-> /\ clients[wintoclient(St, p.trans)].mon = selmon
                           /\ ISVISIBLE(St, wintoclient(St, p.trans)),
                  geom |-> Frame(clients'[wintoclient(Later, w)])]>>
          ELSE Aged

NextTrans ==
  \/ \E w \in Wins : \E p \in TransProps : MapRequest(w, p) /\ Adopted(w, p)
  \/ \E w \in Wins : UnmapNotify(w) /\ hist' = Aged
  \/ \E v \in {1, 3} : SetLayout(v) /\ hist' = Aged
  \/ \E ui \in CoreUi : View(ui) /\ hist' = Aged
  \/ \E i \in Dirs : FocusMon(i) /\ hist' = Aged

SpecTrans == Init /\ [][NextTrans]_vars

\* the transient client c of the entry e: floating, skipped by nexttiled and
\* with the geometry manage gave it; when manage has just returned, on P's
\* monitor with P's tags, and selected if P was visible on the selected
\* monitor
TransientOf(e, c) ==
  /\ clients[c].isfloating
  /\ \A k \in 1 .. Len(Tiled(St, mons[clients[c].mon].clients)) :
       Tiled(St, mons[clients[c].mon].clients)[k] # c
  /\ Frame(clients[c]) = e.geom
  /\ e.fresh =>
       /\ clients[c].mon = e.P.mon
       /\ clients[c].tags = e.P.tags
       /\ e.pvis => mons[selmon].sel = c

\* C17: a window transient for a managed window P is managed floating, on
\* P's monitor with exactly P's tags, is not resized by tile or monocle, and
\* is the selected client after manage if P is visible on the selected
\* monitor
C17_Transient ==
  hist # <<>> => TransientOf(hist[1], wintoclient(St, hist[1].win))

\* manage has just adopted a window for a tiled parent that is visible on
\* the selected monitor
C17_Witness ==
  /\ hist # <<>>
  /\ hist[1].fresh /\ hist[1].pvis
  /\ \E a \in DOMAIN clients : clients[a].win # hist[1].win /\ ~clients[a].isfloating

\* the layout changed to monocle after the transient was managed
C17_WitnessLater ==
  /\ hist # <<>>
  /\ ~hist[1].fresh
  /\ layouts[mons[selmon].lt[mons[selmon].sellt + 1]] = "monocle"
  /\ clients[wintoclient(St, hist[1].win)].mon = selmon

(***************************************************************************)
(* SpecTag: tag on the selected client among up to MaxTiled plain windows  *)
(* of one monitor.  hist holds the argument and the state of the last      *)
(* call.                                                                   *)
(***************************************************************************)
\* masks inside TAGMASK, with a bit outside of it, and outside of it
TagUi == {{0}, {8}, {8, 20}, {20}}

NextTag ==
  \/ \E w \in 1 .. MaxTiled :
       w = Cardinality(DOMAIN clients) + 1 /\ MapTiled(w) /\ hist' = <<>>
  \/ \E w \in 1 .. MaxTiled : UnmapNotify(w) /\ hist' = <<>>
  \/ \E h \in Heights : ConfigureNotify(Low(h), PtrOn(Low(h).screens[1])) /\ hist' = <<>>
  \/ \E ui \in CoreUi : View(ui) /\ hist' = <<>>
  \/ FocusStack(1) /\ hist' = <<>>
  \/ \E ui \in TagUi : Tag(ui) /\ hist' = <<[op |-> "tag", ui |-> ui, before |-> St]>>

SpecTag == InitTile /\ [][NextTag]_vars

\* the left edges, right edges and wx (the top edges, bottom edges and wy) of
\* the clients tl that lie in the work area of m: every pixel of the work
\* area has one of these points to its upper left with the same clients
\* around it
EdgesX(m, tl) ==
  {v \in {m.wx} \cup {clients[tl[k]].x : k \in 1 .. Len(tl)}
           \cup {clients[tl[k]].x + WIDTH(clients[tl[k]]) : k \in 1 .. Len(tl)} :
     v >= m.wx /\ v < m.wx + m.ww}

EdgesY(m, tl) ==
  {v \in {m.wy} \cup {clients[tl[k]].y : k \in 1 .. Len(tl)}
           \cup {clients[tl[k]].y + HEIGHT(clients[tl[k]]) : k \in 1 .. Len(tl)} :
     v >= m.wy /\ v < m.wy + m.wh}

\* every pixel of the work area of m lies in the rectangle of a client of tl
Covers(m, tl) ==
  \A X \in EdgesX(m, tl), Y \in EdgesY(m, tl) :
    \E k \in 1 .. Len(tl) :
      INRECT(X, Y, clients[tl[k]].x, clients[tl[k]].y, WIDTH(clients[tl[k]]),
             HEIGHT(clients[tl[k]]))

\* after tag(ui) in the state b, whose selected client c lost its last
\* visible tag: c is not selected, the selected client is the first visible
\* one of the focus stack without c, the tiled clients cover the work area
Retired(b, c) ==
  /\ mons[selmon].sel # c
  /\ mons[selmon].sel = FirstVisible(St, Unlink(b.mons[b.selmon].stack, c))
  /\ Tiled(St, mons[selmon].clients) # <<>> =>
       Covers(mons[selmon], Tiled(St, mons[selmon].clients))

\* C18: tag(mask) with a selected client and mask & TAGMASK nonzero sets the
\* client's tags to mask & TAGMASK; if these miss the current tagset, the
\* client is no longer selected, the most recently focused client that is
\* still visible is (or none), and the visible tiled clients cover the work
\* area
C18_Tag ==
  (hist # <<>> /\ hist[1].before.mons[selmon].sel # NULL
   /\ hist[1].ui \cap TAGMASK # {}) =>
    /\ clients[hist[1].before.mons[selmon].sel].tags = hist[1].ui \cap TAGMASK
    /\ (hist[1].ui \cap TAGMASK) \cap CurTags(hist[1].before) = {} =>
         Retired(hist[1].before, hist[1].before.mons[selmon].sel)

\* the selected one of three visible clients was given a tag that is not
\* viewed, and the selection fell on a client that was not the head of the
\* client list
C18_Witness ==
  /\ hist # <<>>
  /\ hist[1].ui = {8, 20}
  /\ Len(Tiled(hist[1].before, hist[1].before.mons[selmon].clients)) = 3
  /\ Len(Tiled(St, mons[selmon].clients)) = 2
  /\ mons[selmon].sel # NULL
  /\ mons[selmon].sel # mons[selmon].clients[1]
  /\ mons[selmon].sel # FirstVisible(St, mons[selmon].clients)

(***************************************************************************)
(* SpecDrop: the screen layout changes between one and two heads while     *)
(* clients with various tags sit on the monitors.  hist holds the state in *)
(* which the last ConfigureNotify arrived.                                 *)
(***************************************************************************)
NextDrop ==
  \/ \E w \in Wins : MapRequest(w, Plain) /\ hist' = <<>>
  \/ \E w \in Wins : UnmapNotify(w) /\ hist' = <<>>
  \/ \E i \in Dirs : FocusMon(i) /\ hist' = <<>>
  \/ Tag({8}) /\ hist' = <<>>
  \/ \E ui \in CoreUi : View(ui) /\ hist' = <<>>
  \/ \E xin \in {OneScreen, TwoScreens} : \E ptr \in Ptrs(xin) :
       ConfigureNotify(xin, ptr) /\ hist' = <<[op |-> "configurenotify", before |-> St]>>

SpecDrop == Init /\ [][NextDrop]_vars

\* in the state b there were two monitors with one client each, now there
\* is one monitor
SecondDropped(b) ==
  /\ Len(b.mons) = 2 /\ Len(mons) = 1
  /\ Len(b.mons[1].clients) = 1 /\ Len(b.mons[2].clients) = 1

\* the client c of the removed monitor, whose bar window was bar
Migrated(c, bar) ==
  /\ clients[c].mon = 1
  /\ ISVISIBLE(St, c)
  /\ mons[1].sel = c
  /\ selmon = 1
  /\ BarMon(St, bar, 1) = 0

\* C19: when the second of two monitors, each with one client, is dropped,
\* its client ends on the first monitor, is visible under that monitor's
\* tagset and selected, the bar window of the removed monitor is gone and
\* selmon is the surviving monitor
C19_DropMonitor ==
  (hist # <<>> /\ SecondDropped(hist[1].before)) =>
    Migrated(hist[1].before.mons[2].clients[1], hist[1].before.mons[2].barwin)

(***************************************************************************)
(* SpecRules: applyrules on windows of various classes, with the rules of  *)
(* config.def.h and with a table whose rules name monitors.  hist holds    *)
(* the last call and its result.                                           *)
(***************************************************************************)
\* rules[] of a config.h that sends Gimp to monitor 1, Firefox to monitor 0
\* and display to a monitor 5
Placing ==
  << [class |-> <<"G","i","m","p">>, instance |-> <<>>, title |-> <<>>,
      tags |-> {1}, isfloating |-> TRUE, monitor |-> 1],
     [class |-> <<"F","i","r","e","f","o","x">>, instance |-> <<>>, title |-> <<>>,
      tags |-> {8, 20}, isfloating |-> FALSE, monitor |-> 0],
     [class |-> <<>>, instance |-> <<>>, title |-> <<"s","h">>,
      tags |-> {}, isfloating |-> FALSE, monitor |-> -1],
     [class |-> <<"d","i","s","p","l","a","y">>, instance |-> <<>>, title |-> <<>>,
      tags |-> {}, isfloating |-> TRUE, monitor |-> 5] >>

Tables == {rules, Placing}

Classes ==
  {<<"X","T","e","r","m">>, <<"G","i","m","p">>, <<"F","i","r","e","f","o","x">>,
   <<"G","i","m","p","F","i","r","e","f","o","x">>,
   <<"F","i","r","e","f","o","x","d","i","s","p","l","a","y">>,
   <<"M","i","d","o","r","i","G","i","m","p">>}

Titles == {<<"s","h">>, <<"v","i">>}

RuleProps == {[Plain EXCEPT !.class = k, !.name = n] : k \in Classes, n \in Titles}

\* applyrules(c) for a new client of the selected monitor, with the table rs
Classify(p, rs) ==
  /\ ~crashed
  /\ hist' = <<[p |-> p, rs |-> rs, s |-> St,
                c |-> DefaultTags(St, RulesFrom(St, [cz EXCEPT !.mon = selmon,
                                                               !.isfloating = FALSE,
                                                               !.tags = {}], p, rs, 1))]>>
  /\ Becomes(St)

NextRules ==
  \/ \E xin \in {OneScreen, TwoScreens} : \E ptr \in Ptrs(xin) :
       ConfigureNotify(xin, ptr) /\ hist' = <<>>
  \/ \E i \in Dirs : FocusMon(i) /\ hist' = <<>>
  \/ \E ui \in CoreUi : View(ui) /\ hist' = <<>>
  \/ \E p \in RuleProps : \E rs \in Tables : Classify(p, rs)

SpecRules == Init /\ [][NextRules]_vars

\* the rules of rs that match p, and those of them that name a monitor of s
Matching(rs, p) == {i \in 1 .. Len(rs) : Matches(rs[i], p)}

Naming(s, rs, p) == {i \in Matching(rs, p) : \E k \in 1 .. Len(s.mons) : s.mons[k].num = rs[i].monitor}

Last(S) == CHOOSE i \in S : \A j \in S : j <= i

\* the monitor of s with the number num
Numbered(s, num) == CHOOSE k \in 1 .. Len(s.mons) : s.mons[k].num = num

\* what the claim says of the floating flag and the monitor of the call e
FlagAndMonitor(e) ==
  /\ Matching(e.rs, e.p) # {} => e.c.isfloating = e.rs[Last(Matching(e.rs, e.p))].isfloating
  /\ Matching(e.rs, e.p) = {} => ~e.c.isfloating
  /\ e.c.mon = IF Naming(e.s, e.rs, e.p) = {} THEN e.s.selmon
               ELSE Numbered(e.s, e.rs[Last(Naming(e.s, e.rs, e.p))].monitor)

\* the union of the tag masks of the matching rules
RuleTags(e) == UNION {e.rs[i].tags : i \in Matching(e.rs, e.p)}

\* C20 as stated: the tag mask is the union of the tag masks of all matching
\* rules, the floating flag that of the last matching rule, the monitor the
\* one numbered by the last matching rule that names an existing monitor
C20_RulesUnion ==
  hist # <<>> => (hist[1].c.tags = RuleTags(hist[1]) /\ FlagAndMonitor(hist[1]))

\* C20 amended: the tag mask is the union of the tag masks of all matching
\* rules cut to TAGMASK, or the current tagset of the client's monitor when
\* that is empty; the floating flag is that of the last matching rule, the
\* monitor the one numbered by the last matching rule that names an existing
\* monitor
C20_RulesInOrder ==
  hist # <<>> =>
    /\ hist[1].c.tags =
         IF RuleTags(hist[1]) \cap TAGMASK # {} THEN RuleTags(hist[1]) \cap TAGMASK
         ELSE hist[1].s.mons[hist[1].c.mon].tagset[hist[1].s.mons[hist[1].c.mon].seltags + 1]
    /\ FlagAndMonitor(hist[1])

\* the first rule, a floating one, and a later non-floating rule match, not
\* every matching rule names an existing monitor, and the client goes to
\* another monitor than the selected one
C20_Witness ==
  /\ hist # <<>>
  /\ Cardinality(Matching(hist[1].rs, hist[1].p)) >= 2
  /\ Naming(hist[1].s, hist[1].rs, hist[1].p) # {}
  /\ Naming(hist[1].s, hist[1].rs, hist[1].p) # Matching(hist[1].rs, hist[1].p)
  /\ hist[1].c.mon # hist[1].s.selmon
  /\ hist[1].rs[1].isfloating /\ 1 \in Matching(hist[1].rs, hist[1].p)
  /\ ~hist[1].c.isfloating

(***************************************************************************)
(* SpecBroken: applyrules on windows whose WM_CLASS is read, is read with  *)
(* NULL names, or cannot be read, with the rules of config.def.h and with  *)
(* a table that has a rule on the title alone.  hist holds the last call   *)
(* and its result.                                                         *)
(***************************************************************************)
\* rules[] of a config.h with a rule on the title alone and a rule whose
\* class pattern is part of the word broken
Titled ==
  << [class |-> <<>>, instance |-> <<>>, title |-> <<"s","h">>,
      tags |-> {3}, isfloating |-> TRUE, monitor |-> -1],
     [class |-> <<"r","o","k">>, instance |-> <<>>, title |-> <<>>,
      tags |-> {5}, isfloating |-> FALSE, monitor |-> -1] >>

BrokenProps ==
  {[Plain EXCEPT !.class = k, !.instance = k, !.name = n, !.class_ok = ok] :
     k \in {<<>>, <<"G","i","m","p">>}, n \in Titles, ok \in BOOLEAN}

\* applyrules(c) for a new client of the selected monitor, with the table rs
Ruled(p, rs) ==
  /\ ~crashed
  /\ hist' = <<[p |-> p, rs |-> rs, s |-> St,
                c |-> ApplyTable(St, [cz EXCEPT !.mon = selmon], p, rs)]>>
  /\ Becomes(St)

NextBroken ==
  \/ \E xin \in {OneScreen, TwoScreens} : \E ptr \in Ptrs(xin) :
       ConfigureNotify(xin, ptr) /\ hist' = <<>>
  \/ \E i \in Dirs : FocusMon(i) /\ hist' = <<>>
  \/ \E ui \in CoreUi : View(ui) /\ hist' = <<>>
  \/ \E p \in BrokenProps : \E rs \in {rules, Titled} : Ruled(p, rs)

SpecBroken == Init /\ [][NextBroken]_vars

\* C21: when WM_CLASS cannot be read, the rules are matched with class and
\* instance "broken": the client is what the rule loop makes of it with
\* these two names
C21_BrokenClass ==
  (hist # <<>> /\ ~hist[1].p.class_ok) =>
    hist[1].c = DefaultTags(hist[1].s,
                            RulesFrom(hist[1].s,
                                      [cz EXCEPT !.mon = hist[1].s.selmon, !.isfloating = FALSE,
                                                 !.tags = {}],
                                      [hist[1].p EXCEPT !.class = broken, !.instance = broken],
                                      hist[1].rs, 1))

(***************************************************************************)
(* SpecFixed: windows whose size hints fix their size.  hist holds the     *)
(* last manage or togglefloating call.                                     *)
(***************************************************************************)
\* min and max size 300x200; the same through the base size
FixedSize == [size0 EXCEPT !.flags = {"min", "max"}, !.min_width = 300, !.min_height = 200,
                           !.max_width = 300, !.max_height = 200]

FixedBase == [size0 EXCEPT !.flags = {"base", "max"}, !.base_width = 300, !.base_height = 200,
                           !.max_width = 300, !.max_height = 200]

\* a maximum alone, and a fixed width alone
Loose == [size0 EXCEPT !.flags = {"max"}, !.max_width = 300, !.max_height = 200]

HalfFixed == [size0 EXCEPT !.flags = {"min", "max"}, !.min_width = 300, !.min_height = 100,
                           !.max_width = 300, !.max_height = 200]

FixedProps == {[Plain EXCEPT !.size = z] : z \in {size0, FixedSize, FixedBase, Loose, HalfFixed}}

\* the hints give nonzero minimum and maximum sizes that are equal
GivesFixed(z) ==
  /\ "max" \in z.flags /\ z.max_width # 0 /\ z.max_height # 0
  /\ \/ "min" \in z.flags /\ z.min_width = z.max_width /\ z.min_height = z.max_height
     \/ "min" \notin z.flags /\ "base" \in z.flags
        /\ z.base_width = z.max_width /\ z.base_height = z.max_height

NextFixed ==
  \/ \E w \in Wins : \E p \in FixedProps :
       /\ MapRequest(w, p)
       /\ hist' = IF wintoclient(St, w) = NULL
                  THEN <<[op |-> "manage", win |-> w, p |-> p, before |-> St]>> ELSE <<>>
  \/ \E w \in Wins : UnmapNotify(w) /\ hist' = <<>>
  \/ \E v \in 1 .. Len(layouts) : SetLayout(v) /\ hist' = <<>>
  \/ FocusStack(1) /\ hist' = <<>>
  \/ ToggleFloating /\ hist' = <<[op |-> "togglefloating", win |-> root, p |-> Plain,
                                  before |-> St]>>

SpecFixed == InitZoom /\ [][NextFixed]_vars

\* C22: a window that is not transient, matches no floating rule and has
\* equal nonzero minimum and maximum sizes is fixed and floating when manage
\* has placed it; togglefloating leaves a fixed client floating; no fixed
\* client is ever tiled
C22_FixedFloats ==
  /\ (hist # <<>> /\ hist[1].op = "manage" /\ GivesFixed(hist[1].p.size)) =>
       /\ clients[wintoclient(St, hist[1].win)].isfixed
       /\ clients[wintoclient(St, hist[1].win)].isfloating
  /\ (hist # <<>> /\ hist[1].op = "togglefloating"
      /\ hist[1].before.mons[selmon].sel # NULL
      /\ hist[1].before.clients[hist[1].before.mons[selmon].sel].isfixed) =>
       clients[hist[1].before.mons[selmon].sel].isfloating
  /\ \A a \in DOMAIN clients : clients[a].isfixed => clients[a].isfloating

\* togglefloating was called on a fixed client under the tile layout
C22_Witness ==
  /\ hist # <<>> /\ hist[1].op = "togglefloating"
  /\ hist[1].before.mons[selmon].sel # NULL
  /\ hist[1].before.clients[hist[1].before.mons[selmon].sel].isfixed
  /\ layouts[mons[selmon].lt[mons[selmon].sellt + 1]] = "tile"
  /\ Cardinality(DOMAIN clients) = 2

(***************************************************************************)
(* SpecFact: setmfact in every layout.  hist holds the argument of the     *)
(* last call and the state before it.                                      *)
(***************************************************************************)
\* arg->f in hundredths: the two binds, and absolute values (1.0 + mfact)
Facts == {5, -5, 103, 107, 150, 193, 197}

NextFact ==
  \/ \E w \in Wins : MapRequest(w, Plain) /\ hist' = <<>>
  \/ \E w \in Wins : UnmapNotify(w) /\ hist' = <<>>
  \/ \E v \in 1 .. Len(layouts) : SetLayout(v) /\ hist' = <<>>
  \/ \E f \in Facts : SetMFact(f) /\ hist' = <<[op |-> "setmfact", f |-> f, before |-> St]>>

SpecFact == InitZoom /\ [][NextFact]_vars

\* 0.05 <= v <= 0.95, in hundredths
InRange(v) == v >= 5 /\ v <= 95

\* C23: mfact stays within [0.05, 0.95]; setmfact is ignored exactly when the
\* value it would set is outside [0.05, 0.95] or the layout has no arrange
\* function, and applied otherwise
C23_MFactRange ==
  /\ \A i \in 1 .. Len(mons) : InRange(mons[i].mfact)
  /\ hist # <<>> =>
       IF InRange(NewFact(hist[1].before, hist[1].f))
          /\ Arranged(hist[1].before.mons[hist[1].before.selmon])
       THEN mons[selmon].mfact = NewFact(hist[1].before, hist[1].f)
       ELSE St = hist[1].before

(***************************************************************************)
(* SpecModal: movemouse and resizemouse while other events arrive.  hist   *)
(* holds the last call: the events that arrived before the button release  *)
(* and the state before the call.                                          *)
(***************************************************************************)
\* what may arrive during a drag: the pointer reaches a far point of the
\* screen, a key is pressed, a window is exposed, destroyed or asks to be
\* mapped
Arrivals ==
  {Motion(700, 500), About("key_press", root, Plain), About("expose", root, Plain)} \cup
  {About(k, w, Plain) : k \in {"destroy_notify", "map_request"}, w \in Wins}

Streams ==
  {<<>>} \cup {<<a>> : a \in Arrivals} \cup {<<a, Motion(700, 500)>> : a \in Arrivals}

\* the pointer over the selected client, or in the middle of the screen
Pointer == IF mons[selmon].sel = NULL THEN PtrOn(Screen(0, 0))
           ELSE Over(clients[mons[selmon].sel])

\* the drags so far are counted in hist, next to the last call
MaxDrags == 2

Drags == IF hist = <<>> THEN 0 ELSE hist[1].n

Called(op, ok, p, evs) ==
  /\ Drags < MaxDrags
  /\ hist' = <<[op |-> op, n |-> Drags + 1, grabbed |-> ok, p |-> p, evs |-> evs,
               before |-> St]>>

Idle == hist' = IF hist = <<>> THEN <<>> ELSE <<[op |-> "idle", n |-> Drags]>>

NextModal ==
  \/ \E w \in Wins : MapRequest(w, Plain) /\ Idle
  \/ \E w \in Wins : DestroyNotify(w) /\ Idle
  \/ ToggleFloating /\ Idle
  \/ \E ok, same \in BOOLEAN : \E evs \in Streams :
       /\ ~crashed
       /\ Becomes(movemouse(St, ok, [Pointer EXCEPT !.same_screen = same], evs))
       /\ Called("movemouse", ok, [Pointer EXCEPT !.same_screen = same], evs)
  \/ \E ok \in BOOLEAN : \E evs \in Streams :
       /\ ~crashed
       /\ Becomes(resizemouse(St, ok, evs))
       /\ Called("resizemouse", ok, Pointer, evs)

SpecModal == InitZoom /\ [][NextModal]_vars

\* the call e got the grab: a client was selected and the grab succeeded
Grabbed(e) == e.op # "idle" /\ e.before.mons[e.before.selmon].sel # NULL /\ e.grabbed

\* the call e went through its loop
Looped(e) == Grabbed(e) /\ (e.op = "movemouse" => e.p.same_screen)

\* the last event of evs about window w is of type k
RECURSIVE LastAbout(_, _, _)
LastAbout(evs, w, k) ==
  IF evs = <<>> THEN FALSE
  ELSE IF evs[Len(evs)].window = w /\ evs[Len(evs)].type \in {"destroy_notify", "map_request"}
  THEN evs[Len(evs)].type = k
  ELSE LastAbout(SubSeq(evs, 1, Len(evs) - 1), w, k)

\* C24: an event that the modal loop does not handle is dispatched after
\* the loop: a window whose DestroyNotify arrived during the drag is not
\* managed when movemouse or resizemouse has returned
C24_EventsKept ==
  (hist # <<>> /\ Looped(hist[1])) =>
    \A w \in Wins : LastAbout(hist[1].evs, w, "destroy_notify") => wintoclient(St, w) = NULL

\* C25: when movemouse or resizemouse returns after the pointer grab was
\* acquired, the grab has been released
C25_GrabReleased ==
  (hist # <<>> /\ Grabbed(hist[1])) => ~ptrgrab

\* C26: the modal toggles the floating flag of no client but the one that
\* was selected when it started: every other client has the flag it had, a
\* plain window managed inside the modal is not floating
C26_DraggedClient ==
  (hist # <<>> /\ Looped(hist[1])) =>
    \A a \in DOMAIN clients \ {hist[1].before.mons[hist[1].before.selmon].sel} :
      clients[a].isfloating =
        IF a \in DOMAIN hist[1].before.clients THEN hist[1].before.clients[a].isfloating
        ELSE FALSE

(***************************************************************************)
(* scan(): the children of the root window at startup.  A child is a       *)
(* record [window, p, viewable, iconic]: p are the replies read for the    *)
(* window, viewable its map state, iconic what hints.initial_state ==      *)
(* ICONIC evaluates to (hints is not initialised when WM_HINTS cannot be   *)
(* read, so either value is possible then).                                *)
(***************************************************************************)
\* xcb_get_wm_transient_for_reply succeeds: the property is there
IsTransient(p) == ~p.trans_err /\ p.trans # root

Shown(e) == e.viewable \/ e.iconic

\* the first loop: the transient windows are left for the second loop
ScanChild(s, e) ==
  IF ~e.p.attrs_ok THEN s
  ELSE IF Shown(e)
  THEN IF IsTransient(e.p) THEN s
       ELSE IF ~e.p.override_redirect THEN manage(s, e.window, e.p)
       ELSE s
  ELSE s

RECURSIVE ScanChildren(_, _)
ScanChildren(s, ws) ==
  IF ws = <<>> THEN s ELSE ScanChildren(ScanChild(s, Head(ws)), Tail(ws))

\* the second loop: every window with is_transient set is managed
ScanTransient(s, e) ==
  IF e.p.attrs_ok /\ Shown(e) /\ IsTransient(e.p) THEN manage(s, e.window, e.p) ELSE s

RECURSIVE ScanTransients(_, _)
ScanTransients(s, ws) ==
  IF ws = <<>> THEN s ELSE ScanTransients(ScanTransient(s, Head(ws)), Tail(ws))

scan(s, ws) == ScanTransients(ScanChildren(s, ws), ws)

(***************************************************************************)
(* SpecScan: main() calls setup(), scan() and run().  hist is empty until  *)
(* scan() has run.  Window MaxWin is override-redirect all along, the      *)
(* other windows are not; any window may carry WM_TRANSIENT_FOR.           *)
(***************************************************************************)
Attrs(w) ==
  {[Plain EXCEPT !.override_redirect = (w = MaxWin), !.trans = t] : t \in (0 .. MaxWin) \ {w}}

Child(w) ==
  {[window |-> w, p |-> a, viewable |-> v, iconic |-> i] : a \in Attrs(w), v, i \in BOOLEAN}

\* the root window has no child, one child, or all the windows in order
RECURSIVE Trees(_)
Trees(w) ==
  IF w > MaxWin THEN {<<>>}
  ELSE {<<e>> \o ws : e \in Child(w), ws \in Trees(w + 1)}

Scan(ws) == hist = <<>> /\ Becomes(scan(St, ws)) /\ hist' = <<ws>>

Running == hist # <<>> /\ UNCHANGED hist

NextScan ==
  \/ \E ws \in Trees(1) \cup {<<>>} \cup UNION {{<<e>> : e \in Child(w)} : w \in Wins} : Scan(ws)
  \/ \E w \in Wins : \E a \in Attrs(w) : MapRequest(w, a) /\ Running
  \/ \E w \in Wins : UnmapNotify(w) /\ Running
  \/ \E v \in 1 .. Len(layouts) : SetLayout(v) /\ Running
  \/ ToggleFloating /\ Running
  \/ FocusStack(1) /\ Running

SpecScan == InitZoom /\ [][NextScan]_vars

\* C27: no override-redirect window is ever a client, neither after scan()
\* nor after a MapRequest
C27_NoOverride == wintoclient(St, MaxWin) = NULL

(***************************************************************************)
(* The events configurerequest() sends.  configure(c) sends a synthetic    *)
(* ConfigureNotify with the stored geometry of c.                          *)
(***************************************************************************)
configure(c) ==
  [type |-> "configure_notify", window |-> c.win, x |-> c.x, y |-> c.y,
   width |-> c.w, height |-> c.h, border_width |-> c.bw]

\* the ConfigureNotify events sent while the request ev is handled in s
ClientNotify(s, cid, ev) ==
  IF "bw" \in ev.mask THEN <<>>
  ELSE IF s.clients[cid].isfloating \/ ~Arranged(s.mons[s.selmon])
  THEN IF ev.mask \cap {"x", "y"} # {} /\ ev.mask \cap {"w", "h"} = {}
       THEN <<configure(ClientRequest(s, cid, ev).clients[cid])>>
       ELSE <<>>
  ELSE <<configure(s.clients[cid])>>

Sent(s, ev) ==
  IF wintoclient(s, ev.window) # NULL
  THEN ClientNotify(s, wintoclient(s, ev.window), ev)
  ELSE <<>>

(***************************************************************************)
(* SpecRequest: ConfigureRequest events for the windows, on one or two     *)
(* monitors with their own layouts.  hist holds the last request, the      *)
(* state before it and the events sent for it.                             *)
(***************************************************************************)
Masks == {{"x", "y"}, {"w", "h"}, {"bw"}}

Asks(w) ==
  {[window |-> w, mask |-> k, x |-> 30, y |-> 40, width |-> 300, height |-> 200,
    border_width |-> 5] : k \in Masks}

NextRequest ==
  \/ \E w \in Wins : w = Cardinality(DOMAIN clients) + 1 /\ MapRequest(w, Plain) /\ hist' = <<>>
  \/ FocusMon(1) /\ hist' = <<>>
  \/ \E v \in {1, 2} : SetLayout(v) /\ hist' = <<>>
  \/ ToggleFloating /\ hist' = <<>>
  \/ \E w \in Wins : \E ev \in Asks(w) :
       /\ ConfigureRequest(ev)
       /\ hist' = <<[ev |-> ev, before |-> St, sent |-> Sent(St, ev)]>>

SpecRequest == Init /\ [][NextRequest]_vars

\* the client the last request was for, NULL when the window is not managed
Asked == wintoclient(hist[1].before, hist[1].ev.window)

\* the layout of the monitor of client a arranged the clients before the request
OwnArranged(a) == Arranged(hist[1].before.mons[hist[1].before.clients[a].mon])

\* C28: a ConfigureRequest changes the stored x, y, w, h of a managed
\* client only if the client is floating or the layout of the client's own
\* monitor has no arrange function
C28_TiledKept ==
  (hist # <<>> /\ Asked # NULL) =>
    (Frame(clients[Asked]) # Frame(hist[1].before.clients[Asked]) =>
       (hist[1].before.clients[Asked].isfloating \/ ~OwnArranged(Asked)))

\* C29: every ConfigureRequest for a managed tiled client, whatever its
\* value mask, makes the handler send a ConfigureNotify to that client
C29_TiledNotified ==
  (hist # <<>> /\ Asked # NULL) =>
    ((~hist[1].before.clients[Asked].isfloating /\ OwnArranged(Asked)) =>
       \E k \in 1 .. Len(hist[1].sent) : hist[1].sent[k].window = hist[1].ev.window)

(***************************************************************************)
(* keypress(): the key bindings of config.def.h.  A modifier mask is the   *)
(* set of its modifiers, a keysym its name.  An argument is the .i, .ui,   *)
(* .f (in hundredths) or layout index of the entry, 0 for {0}.             *)
(***************************************************************************)
MODKEY == {"Mod1"}

\* the modifier NumLock is mapped to, as updatenumlockmask() finds it
numlockmask == {"Mod2"}

CLEANMASK(mask) == mask \ ({"Lock"} \cup numlockmask)

Key(mod, keysym, func, arg) == [mod |-> mod, keysym |-> keysym, func |-> func, arg |-> arg]

TAGKEYS(KEY, TAG) ==
  <<Key(MODKEY, KEY, "view", {TAG}),
    Key(MODKEY \cup {"Control"}, KEY, "toggleview", {TAG}),
    Key(MODKEY \cup {"Shift"}, KEY, "tag", {TAG}),
    Key(MODKEY \cup {"Control", "Shift"}, KEY, "toggletag", {TAG})>>

keys ==
  <<Key(MODKEY, "p", "spawn", 0),
    Key(MODKEY \cup {"Shift"}, "Return", "spawn", 0),
    Key(MODKEY, "b", "togglebar", 0),
    Key(MODKEY, "j", "focusstack", 1),
    Key(MODKEY, "k", "focusstack", -1),
    Key({"Mod1"}, "Tab", "focusstack", 1),
    Key({"Mod1", "Shift"}, "Tab", "focusstack", -1),
    Key(MODKEY, "h", "setmfact", -5),
    Key(MODKEY, "l", "setmfact", 5),
    Key(MODKEY, "Return", "zoom", 0),
    Key(MODKEY, "Tab", "view", {}),
    Key(MODKEY \cup {"Shift"}, "c", "killclient", 0),
    Key(MODKEY, "t", "setlayout", 1),
    Key(MODKEY, "f", "setlayout", 2),
    Key(MODKEY, "m", "setlayout", 3),
    Key(MODKEY, "space", "setlayout", 0),
    Key(MODKEY \cup {"Shift"}, "space", "togglefloating", 0),
    Key(MODKEY, "0", "view", AllBits),
    Key(MODKEY \cup {"Shift"}, "0", "tag", AllBits),
    Key(MODKEY, "comma", "focusmon", -1),
    Key(MODKEY, "period", "focusmon", 1),
    Key(MODKEY \cup {"Shift"}, "comma", "tagmon", -1),
    Key(MODKEY \cup {"Shift"}, "period", "tagmon", 1)>> \o
  TAGKEYS("1", 0) \o TAGKEYS("2", 1) \o TAGKEYS("3", 2) \o TAGKEYS("4", 3) \o
  TAGKEYS("5", 4) \o TAGKEYS("6", 5) \o TAGKEYS("7", 6) \o TAGKEYS("8", 7) \o
  TAGKEYS("9", 8) \o
  <<Key(MODKEY, "Left", "viewprev", 0),
    Key(MODKEY, "Right", "viewnext", 0),
    Key(MODKEY \cup {"Shift"}, "q", "quit", 0)>>

\* keys[i].func(&keys[i].arg); spawn, killclient and quit leave the clients
\* and the monitors as they are
Bind(s, func, arg) ==
  CASE func = "togglebar" -> togglebar(s)
    [] func = "focusstack" -> focusstack(s, arg)
    [] func = "setmfact" -> setmfact(s, arg)
    [] func = "zoom" -> zoom(s)
    [] func = "view" -> view(s, arg)
    [] func = "toggleview" -> toggleview(s, arg)
    [] func = "tag" -> tag(s, arg)
    [] func = "toggletag" -> toggletag(s, arg)
    [] func = "setlayout" -> setlayout(s, arg)
    [] func = "togglefloating" -> togglefloating(s)
    [] func = "focusmon" -> focusmon(s, arg)
    [] func = "tagmon" -> tagmon(s, arg)
    [] func = "viewprev" -> viewprev(s)
    [] func = "viewnext" -> viewnext(s)
    [] OTHER -> s

\* the loop over keys from entry i on; ran lists the entries whose function
\* has been called
RECURSIVE KeyLoop(_, _, _, _, _)
KeyLoop(s, ran, keysym, state, i) ==
  IF i > Len(keys) THEN [s |-> s, ran |-> ran]
  ELSE IF keysym = keys[i].keysym /\ CLEANMASK(keys[i].mod) = CLEANMASK(state)
  THEN KeyLoop(Bind(s, keys[i].func, keys[i].arg), Append(ran, i), keysym, state, i + 1)
  ELSE KeyLoop(s, ran, keysym, state, i + 1)

keypress(s, keysym, state) == KeyLoop(s, <<>>, keysym, state, 1).s

(***************************************************************************)
(* SpecKeys: key presses on one monitor with up to MaxClients clients.      *)
(* hist holds the last key press, the state before it and the entries of   *)
(* keys that were run for it.                                              *)
(***************************************************************************)
Pressed == {"Tab", "j", "2", "x"}

States == {{"Mod1"}, {"Mod1", "Lock"}, {"Mod1", "Shift"}}

KeyPress(keysym, state) ==
  /\ ~crashed
  /\ Becomes(keypress(St, keysym, state))
  /\ hist' = <<[keysym |-> keysym, state |-> state, before |-> St,
               ran |-> KeyLoop(St, <<>>, keysym, state, 1).ran]>>

NextKeys ==
  \/ \E w \in Wins : w = Cardinality(DOMAIN clients) + 1 /\ MapRequest(w, Plain) /\ hist' = <<>>
  \/ \E keysym \in Pressed : \E state \in States : KeyPress(keysym, state)

SpecKeys == InitZoom /\ [][NextKeys]_vars

\* C30: a KeyPress runs at most one bind function, the first entry of keys
\* that matches: the state after it is the state that entry alone gives
C30_FirstBind ==
  hist # <<>> =>
    /\ Len(hist[1].ran) <= 1
    /\ St = IF hist[1].ran = <<>> THEN hist[1].before
            ELSE Bind(hist[1].before, keys[hist[1].ran[1]].func, keys[hist[1].ran[1]].arg)

(***************************************************************************)
(* SpecScreens: root ConfigureNotify events that add heads, take heads     *)
(* away and change the size of the first head.  hist holds the screens of  *)
(* the last event and the state before it.                                 *)
(***************************************************************************)
\* one head of another size
Small == [x |-> 0, y |-> 0, w |-> 800, h |-> 600]

OneSmall == [active |-> TRUE, screens |-> <<Small>>, width |-> 800, height |-> 600]

\* the small head with a second head on its right
SmallAndRight == [active |-> TRUE, screens |-> <<Small, Screen(1, 0)>>,
                  width |-> 2 * ScreenW, height |-> ScreenH]

Heads == {OneScreen, TwoScreens, TwoStacked, OneSmall, SmallAndRight}

NextScreens ==
  \/ \E w \in Wins : w = Cardinality(DOMAIN clients) + 1 /\ MapRequest(w, Plain) /\ hist' = <<>>
  \/ ToggleBar /\ hist' = <<>>
  \/ \E xin \in Heads : \E ptr \in Ptrs(xin) :
       /\ ConfigureNotify(xin, ptr)
       /\ hist' = <<[xin |-> xin, before |-> St]>>

SpecScreens == Init /\ [][NextScreens]_vars

\* the unique geometries of the last event
Unique == UniqueScreens(<<>>, hist[1].xin.screens)

\* monitor m has the screen rect u, and its work area and bar position are
\* what updatebarpos computes from u
Fits(m, u) ==
  /\ <<m.mx, m.my, m.mw, m.mh>> = <<u.x, u.y, u.w, u.h>>
  /\ <<m.wx, m.ww>> = <<u.x, u.w>>
  /\ <<m.wy, m.wh, m.by>> =
       <<Adjust(m, 1, u).wy, Adjust(m, 1, u).wh, Adjust(m, 1, u).by>>

\* C31: after updategeom, for every i up to min(N, n) monitor i has the
\* i-th unique geometry, with its work area and bar position
C31_GeometryKept ==
  hist # <<>> =>
    \A i \in 1 .. MIN(Len(Unique), Len(hist[1].before.mons)) : Fits(mons[i], Unique[i])

(***************************************************************************)
(* restack(): the stacking order of the server is a sequence of windows,   *)
(* the lowest first.                                                       *)
(***************************************************************************)
RECURSIVE Lifted(_, _)
Lifted(order, w) ==
  IF order = <<>> THEN <<>>
  ELSE IF Head(order) = w THEN Lifted(Tail(order), w)
  ELSE <<Head(order)>> \o Lifted(Tail(order), w)

\* xcb_raise_window
Raise(order, w) == Append(Lifted(order, w), w)

RECURSIVE Under(_, _, _)
Under(order, w, sibling) ==
  IF order = <<>> THEN <<>>
  ELSE IF Head(order) = sibling THEN <<w>> \o order
  ELSE <<Head(order)>> \o Under(Tail(order), w, sibling)

\* xcb_configure_window with a sibling and XCB_STACK_MODE_BELOW
Below(order, w, sibling) == Under(Lifted(order, w), w, sibling)

\* the loop over m->stack; wc is the sibling of the next window
RECURSIVE RestackLoop(_, _, _, _)
RestackLoop(s, stack, wc, order) ==
  IF stack = <<>> THEN order
  ELSE IF ~s.clients[Head(stack)].isfloating /\ ISVISIBLE(s, Head(stack))
  THEN RestackLoop(s, Tail(stack), s.clients[Head(stack)].win,
                   Below(order, s.clients[Head(stack)].win, wc))
  ELSE RestackLoop(s, Tail(stack), wc, order)

RestackSel(s, mi, order) ==
  IF s.clients[s.mons[mi].sel].isfloating \/ ~Arranged(s.mons[mi])
  THEN Raise(order, s.clients[s.mons[mi].sel].win)
  ELSE order

restack(s, mi, order) ==
  IF s.mons[mi].sel = NULL THEN order
  ELSE IF Arranged(s.mons[mi])
  THEN RestackLoop(s, s.mons[mi].stack, s.mons[mi].barwin, RestackSel(s, mi, order))
  ELSE RestackSel(s, mi, order)

(***************************************************************************)
(* SpecStack: restack(selmon) on any stacking order of the bar window and  *)
(* the client windows of one monitor.  hist holds the order it leaves.     *)
(***************************************************************************)
\* the orders of the windows in W, the lowest first
RECURSIVE Orders(_)
Orders(W) ==
  IF W = {} THEN {<<>>}
  ELSE UNION {{<<w>> \o o : o \in Orders(W \ {w})} : w \in W}

OnServer == {mons[selmon].barwin} \cup {clients[a].win : a \in DOMAIN clients}

Restack(order) ==
  /\ ~crashed
  /\ Becomes(St)
  /\ hist' = <<[order |-> restack(St, selmon, order)]>>

NextStack ==
  \/ \E w \in Wins : MapRequest(w, Plain) /\ hist' = <<>>
  \/ \E w \in Wins : UnmapNotify(w) /\ hist' = <<>>
  \/ \E v \in 1 .. Len(layouts) : SetLayout(v) /\ hist' = <<>>
  \/ ToggleFloating /\ hist' = <<>>
  \/ FocusStack(1) /\ hist' = <<>>
  \/ \E ui \in {{0}, {1}} : View(ui) /\ hist' = <<>>
  \/ \E ui \in {{0}, {1}} : Tag(ui) /\ hist' = <<>>
  \/ \E order \in Orders(OnServer) : Restack(order)

SpecStack == InitZoom /\ [][NextStack]_vars

\* the place of window w in the order
Place(order, w) == CHOOSE k \in 1 .. Len(order) : order[k] = w

\* the visible non-floating clients of the selected monitor, in focus-stack
\* order
RECURSIVE Tiles(_)
Tiles(stack) ==
  IF stack = <<>> THEN <<>>
  ELSE IF ~clients[Head(stack)].isfloating /\ ISVISIBLE(St, Head(stack))
  THEN <<Head(stack)>> \o Tiles(Tail(stack))
  ELSE Tiles(Tail(stack))

\* C32: after restack on a monitor whose layout arranges, the bar window is
\* above every client window of the monitor, and the visible non-floating
\* clients lie below it in focus-stack order
C32_BarOnTop ==
  (hist # <<>> /\ Arranged(mons[selmon])) =>
    /\ \A a \in DOMAIN clients :
         Place(hist[1].order, clients[a].win) < Place(hist[1].order, mons[selmon].barwin)
    /\ \A i, j \in 1 .. Len(Tiles(mons[selmon].stack)) :
         i < j => Place(hist[1].order, clients[Tiles(mons[selmon].stack)[j]].win)
                    < Place(hist[1].order, clients[Tiles(mons[selmon].stack)[i]].win)

(***************************************************************************)
(* SpecFocus: focusstack(+1) and focusstack(-1) among up to MaxTiled       *)
(* clients, some of them on a tag that is not viewed.  hist holds the last *)
(* two calls of focusstack, the last first, each with the state before it. *)
(***************************************************************************)
Stacked(i) ==
  /\ FocusStack(i)
  /\ hist' = <<[i |-> i, before |-> St]>> \o (IF hist = <<>> THEN <<>> ELSE <<hist[1]>>)

NextFocus ==
  \/ \E w \in 1 .. MaxTiled :
       w = Cardinality(DOMAIN clients) + 1 /\ MapTiled(w) /\ hist' = <<>>
  \/ \E ui \in {{0}, {1}} : Tag(ui) /\ hist' = <<>>
  \/ \E ui \in {{0}, {1}} : View(ui) /\ hist' = <<>>
  \/ \E i \in {1, -1} : Stacked(i)

SpecFocus == InitZoom /\ [][NextFocus]_vars

\* the clients of the list L after position k, then those up to k
Onward(L, k) == SubSeq(L, k + 1, Len(L)) \o SubSeq(L, 1, k)

\* the clients of the list L back from position k - 1 to the start, then
\* from the end back to k, the last one first
RECURSIVE Reverse(_)
Reverse(L) == IF L = <<>> THEN <<>> ELSE Append(Reverse(Tail(L)), Head(L))

Backward(L, k) == Reverse(SubSeq(L, k, Len(L)) \o SubSeq(L, 1, k - 1))

\* the selected client and the client list of the selected monitor in b
SelOf(b) == b.mons[b.selmon].sel

ListOf(b) == b.mons[b.selmon].clients

\* the call e of focusstack selected the next (i > 0) or the previous
\* visible client around the selected one, and left the list as it was
StepsTo(e, after) ==
  SelOf(e.before) # NULL =>
    /\ ListOf(after) = ListOf(e.before)
    /\ SelOf(after) =
         NextVisible(e.before,
                     IF e.i > 0
                     THEN Onward(ListOf(e.before), Pos(ListOf(e.before), SelOf(e.before)))
                     ELSE Backward(ListOf(e.before), Pos(ListOf(e.before), SelOf(e.before))))

\* C33: focusstack(+1) selects the next visible client in client-list
\* order, focusstack(-1) the previous one, both wrapping; the list keeps
\* its order, and a step one way followed by a step the other way
\* reselects the client that was selected first
C33_FocusStack ==
  /\ hist # <<>> => StepsTo(hist[1], St)
  /\ (Len(hist) = 2 /\ hist[1].i = 0 - hist[2].i) => SelOf(St) = SelOf(hist[2].before)

\* three clients, the middle one not visible: a step forward wrapped from
\* the last client to the first and the step back returned to the last
C33_Witness ==
  /\ Len(hist) = 2 /\ hist[2].i = 1 /\ hist[1].i = -1
  /\ Len(ListOf(St)) = MaxTiled
  /\ SelOf(St) = ListOf(St)[MaxTiled]
  /\ SelOf(hist[1].before) = ListOf(St)[1]
  /\ ~ISVISIBLE(St, ListOf(St)[2])

(***************************************************************************)
(* The bar windows on the server.  updatebars() creates one window for     *)
(* every monitor, cleanupmon() destroys the bar window of its monitor.     *)
(***************************************************************************)
\* the windows updatebars creates in state s
BarsCreated(s) == Len(s.mons)

\* the calls of cleanupmon in updategeom: one for every monitor that goes
BarsDestroyed(s, xin) ==
  IF xin.active /\ Len(s.mons) > Len(UniqueScreens(<<>>, xin.screens))
  THEN Len(s.mons) - Len(UniqueScreens(<<>>, xin.screens))
  ELSE 0

\* the number of bar windows on the server after configurenotify, when
\* there were n before it
BarsAfter(n, s, ev, xin, ptr) ==
  IF ev.window # root THEN n
  ELSE n - BarsDestroyed(s, xin)
         + (IF updategeom([s EXCEPT !.sw = ev.width, !.sh = ev.height], xin, ptr).dirty
            THEN BarsCreated(configurenotify(s, ev, xin, ptr))
            ELSE 0)

(***************************************************************************)
(* SpecBars: root ConfigureNotify events; hist holds the number of bar     *)
(* windows that exist on the server, once it has changed since setup().    *)
(***************************************************************************)
MaxBars == 6

\* setup() calls updatebars once
Bars == IF hist = <<>> THEN BarsCreated(St) ELSE hist[1]

NextBars ==
  \/ \E w \in Wins : w = Cardinality(DOMAIN clients) + 1 /\ MapRequest(w, Plain) /\ UNCHANGED hist
  \/ \E w \in Wins : UnmapNotify(w) /\ UNCHANGED hist
  \/ FocusMon(1) /\ UNCHANGED hist
  \/ \E xin \in Heads : \E ptr \in Ptrs(xin) :
       /\ Bars < MaxBars
       /\ ConfigureNotify(xin, ptr)
       /\ hist' = <<BarsAfter(Bars, St, [window |-> root, width |-> xin.width,
                                         height |-> xin.height], xin, ptr)>>

SpecBars == Init /\ [][NextBars]_vars

\* C34: the bar windows on the server are as many as the monitors
C34_OneBarEach == Bars = Len(mons)

(***************************************************************************)
(* cleanup().  r is [s, out]: the state and the windows given back to the  *)
(* server so far, each with the border width unmanage() restores.          *)
(***************************************************************************)
\* unmanage(m->stack, false), and what it tells the server
GiveBack(r, c) ==
  [s |-> unmanage(r.s, c, FALSE),
   out |-> Append(r.out, [window |-> r.s.clients[c].win,
                          border_width |-> r.s.clients[c].oldbw,
                          state |-> "withdrawn"])]

\* while(m->stack) unmanage(m->stack, false); the loop does not end when
\* unmanage leaves m->stack as it is
RECURSIVE CleanStack(_, _)
CleanStack(r, mi) ==
  IF r.s.mons[mi].stack = <<>> THEN r
  ELSE IF r.s.clients[Head(r.s.mons[mi].stack)].mon # mi
  THEN [r EXCEPT !.s.crashed = TRUE]
  ELSE CleanStack(GiveBack(r, Head(r.s.mons[mi].stack)), mi)

\* for(m = mons; m; m = m->next), from monitor mi on
RECURSIVE CleanMons(_, _)
CleanMons(r, mi) ==
  IF mi > Len(r.s.mons) \/ r.s.crashed THEN r
  ELSE CleanMons(CleanStack(r, mi), mi + 1)

\* while(mons) cleanupmon(mons);
RECURSIVE DropMons(_)
DropMons(s) == IF s.mons = <<>> THEN s ELSE DropMons(cleanupmon(s, 1))

\* view(&a); selmon->lt[selmon->sellt] = &foo;  foo has no arrange function,
\* as layouts[1]
Unarranged(s) == [view(s, AllBits) EXCEPT !.mons[s.selmon].lt[s.mons[s.selmon].sellt + 1] = 2]

CleanAll(s) == CleanMons([s |-> Unarranged(s), out |-> <<>>], 1)

\* cleanup without the loop that removes the monitors
cleanup_keepmons(s) == CleanAll(s).s

cleanup(s) == IF CleanAll(s).s.crashed THEN CleanAll(s).s ELSE DropMons(CleanAll(s).s)

(***************************************************************************)
(* SpecQuit: main() after setup(): run() until quit, then cleanup().  hist *)
(* is empty while running is true; then it holds where main() is, the      *)
(* state when quit was called and what cleanup() gave back.                *)
(***************************************************************************)
\* a window that has a border of 2 when it asks to be mapped
Bordered == [Plain EXCEPT !.geo = [geo0 EXCEPT !.bw = 2]]

BorderRequest(w) ==
  [window |-> w, mask |-> {"bw"}, x |-> 0, y |-> 0, width |-> 0, height |-> 0,
   border_width |-> 5]

InLoop == hist = <<>> /\ UNCHANGED hist

\* the quit bind: running = false
Quit ==
  /\ hist = <<>>
  /\ ~crashed
  /\ Becomes(St)
  /\ hist' = <<[pc |-> "cleanup", before |-> St, out |-> <<>>]>>

Cleanup ==
  /\ hist # <<>> /\ hist[1].pc = "cleanup"
  /\ ~crashed
  /\ Becomes(cleanup(St))
  /\ hist' = <<[pc |-> "exit", before |-> hist[1].before, out |-> CleanAll(St).out]>>

NextQuit ==
  \/ \E w \in Wins : InLoop /\ MapRequest(w, Bordered)
  \/ \E w \in Wins : InLoop /\ ConfigureRequest(BorderRequest(w))
  \/ \E xin \in {OneScreen, TwoScreens} : \E ptr \in Ptrs(xin) :
       InLoop /\ ConfigureNotify(xin, ptr)
  \/ InLoop /\ FocusMon(1)
  \/ InLoop /\ TagMon(1)
  \/ InLoop /\ Tag({1})
  \/ Quit
  \/ Cleanup

SpecQuit == Init /\ [][NextQuit]_vars

\* the windows of the clients of state b
Managed(b) == {b.clients[a].win : a \in DOMAIN b.clients}

\* C35: after quit no handler runs; when cleanup has returned, the monitor
\* list is empty, no client is left, and every window that was managed has
\* been given back once, withdrawn and with its original border width
C35_CleanExit ==
  /\ hist # <<>> => (~crashed /\ (hist[1].pc = "cleanup" => St = hist[1].before))
  /\ (hist # <<>> /\ hist[1].pc = "exit") =>
       /\ mons = <<>>
       /\ DOMAIN clients = {}
       /\ {hist[1].out[k].window : k \in 1 .. Len(hist[1].out)} = Managed(hist[1].before)
       /\ Len(hist[1].out) = Cardinality(Managed(hist[1].before))
       /\ \A k \in 1 .. Len(hist[1].out) :
            hist[1].out[k].border_width = Bordered.geo.bw /\ hist[1].out[k].state = "withdrawn"

\* cleanup has returned after two clients were managed on two monitors, one
\* of them with another border width asked for
C35_Witness ==
  /\ hist # <<>> /\ hist[1].pc = "exit"
  /\ Len(hist[1].before.mons) = 2
  /\ Cardinality(DOMAIN hist[1].before.clients) = MaxClients
  /\ \E a, b \in DOMAIN hist[1].before.clients :
       /\ hist[1].before.clients[a].mon # hist[1].before.clients[b].mon
       /\ hist[1].before.clients[a].bw = 5

(***************************************************************************)
(* SpecSets: sequences of view, toggleview, viewnext and viewprev on one   *)
(* monitor.  hist counts the calls.                                        *)
(***************************************************************************)
MaxSteps == 5

Steps == IF hist = <<>> THEN 0 ELSE hist[1]

Counted == Steps < MaxSteps /\ hist' = <<Steps + 1>>

NextSets ==
  \/ \E ui \in {{0}, {8}, AllBits} : Counted /\ View(ui)
  \/ \E ui \in {{0}, {8}} : Counted /\ ToggleView(ui)
  \/ Counted /\ ViewNext
  \/ Counted /\ ViewPrev

SpecSets == InitZoom /\ [][NextSets]_vars

\* C36: both tagset slots of every monitor are nonzero and have no bit
\* outside TAGMASK
C36_TagsetsValid ==
  \A i \in 1 .. Len(mons) : \A k \in 1 .. 2 :
    mons[i].tagset[k] # {} /\ mons[i].tagset[k] \subseteq TAGMASK

(***************************************************************************)
(* SpecMasks: the tag masks the clients get from the rules, from sendmon   *)
(* and from the tag binds, on one or two monitors.  hist counts the steps. *)
(***************************************************************************)
NextMasks ==
  \/ \E w \in Wins : w = Cardinality(DOMAIN clients) + 1 /\ Counted /\ MapRequest(w, Plain)
  \/ Counted /\ View({8})
  \/ Counted /\ ViewNext
  \/ Counted /\ FocusMon(1)
  \/ Counted /\ TagMon(1)
  \/ Counted /\ Tag({1})
  \/ Counted /\ ToggleTag({0})

SpecMasks == Init /\ [][NextMasks]_vars

\* C37: every client's tag mask has a bit inside TAGMASK and none outside
C37_MasksValid ==
  \A a \in DOMAIN clients :
    clients[a].tags \cap TAGMASK # {} /\ clients[a].tags \subseteq TAGMASK

(***************************************************************************)
(* SpecSel: the selected client of the selected monitor while clients are  *)
(* sent between monitors and monitors come and go.                         *)
(***************************************************************************)
NextSel ==
  \/ \E w \in Wins : w = Cardinality(DOMAIN clients) + 1 /\ MapRequest(w, Plain) /\ UNCHANGED hist
  \/ \E w \in Wins : UnmapNotify(w) /\ UNCHANGED hist
  \/ \E xin \in {OneScreen, TwoScreens} : \E ptr \in Ptrs(xin) :
       ConfigureNotify(xin, ptr) /\ UNCHANGED hist
  \/ FocusMon(1) /\ UNCHANGED hist
  \/ TagMon(1) /\ UNCHANGED hist
  \/ Tag({1}) /\ UNCHANGED hist
  \/ \E ui \in {{0}, {1}} : View(ui) /\ UNCHANGED hist
  \/ ToggleFloating /\ UNCHANGED hist
  \/ Zoom /\ UNCHANGED hist

SpecSel == Init /\ [][NextSel]_vars

\* C38: the selected monitor has no selected client only if none of its
\* clients is visible, and no bind has acted on a null client
C38_SelWhenVisible ==
  /\ ~crashed
  /\ mons[selmon].sel = NULL =>
       \A k \in 1 .. Len(mons[selmon].clients) : ~ISVISIBLE(St, mons[selmon].clients[k])

(***************************************************************************)
(* SpecLook: the border colour and the button grabs of the clients on two  *)
(* monitors, with clients dragged from one monitor to the other.           *)
(***************************************************************************)
\* the pointer goes from p to the same place on the other head
Across(p) ==
  <<Motion(IF p.x < ScreenW THEN p.x + ScreenW ELSE p.x - ScreenW, p.y)>>

NextLook ==
  \/ \E w \in Wins : w = Cardinality(DOMAIN clients) + 1 /\ MapRequest(w, Plain) /\ UNCHANGED hist
  \/ \E w \in Wins : UnmapNotify(w) /\ UNCHANGED hist
  \/ FocusMon(1) /\ UNCHANGED hist
  \/ TagMon(1) /\ UNCHANGED hist
  \/ FocusStack(1) /\ UNCHANGED hist
  \/ ToggleFloating /\ UNCHANGED hist
  \/ /\ mons[selmon].sel # NULL
     /\ MoveMouse(Pointer, Across(Pointer))
     /\ UNCHANGED hist
  \/ /\ mons[selmon].sel # NULL
     /\ ResizeMouse(<<Motion(clients[mons[selmon].sel].x + ScreenW + 300,
                             clients[mons[selmon].sel].y + 200)>>)
     /\ UNCHANGED hist

SpecLook == Init /\ [][NextLook]_vars

\* C39: a client with the selected border colour or the focused button
\* grabs is the selected client of the selected monitor
C39_OneSelected ==
  \A a \in DOMAIN clients :
    (clients[a].border = "sel" \/ clients[a].focused) => a = mons[selmon].sel

(***************************************************************************)
(* propertynotify.  ev is the event (window, atom, state); r is what the   *)
(* server answers to the requests the handler makes: trans, size, and the  *)
(* WM_HINTS reply (hints_ok, urgent).                                      *)
(***************************************************************************)
\* case XCB_ATOM_WM_TRANSIENT_FOR, trans being what the reply left in the
\* variable
NotifyTransient(s, c, trans) ==
  IF ~s.clients[c].isfloating /\ wintoclient(s, trans) # NULL
  THEN arrange([s EXCEPT !.clients[c].isfloating = TRUE], s.clients[c].mon)
  ELSE s

updatewmhints(s, c, r) ==
  IF ~r.hints_ok THEN s
  ELSE IF c = s.mons[s.selmon].sel /\ r.urgent THEN s
  ELSE [s EXCEPT !.clients[c].isurgent = r.urgent]

propertynotify(s, ev, r, trans) ==
  IF ev.window = root /\ ev.atom = "WM_NAME" THEN s
  ELSE IF ev.state = "DELETE" THEN s
  ELSE IF wintoclient(s, ev.window) = NULL THEN s
  ELSE IF ev.atom = "WM_TRANSIENT_FOR"
  THEN NotifyTransient(s, wintoclient(s, ev.window), trans)
  ELSE IF ev.atom = "WM_NORMAL_HINTS"
  THEN [s EXCEPT !.clients[wintoclient(s, ev.window)] = updatesizehints(@, r.size)]
  ELSE IF ev.atom = "WM_HINTS"
  THEN updatewmhints(s, wintoclient(s, ev.window), r)
  ELSE s

\* the reply's return value is not tested: when it fails trans is whatever
\* the stack held
PropertyNotify(ev, r) ==
  /\ ~crashed
  /\ \E trans \in (IF r.trans_err THEN 0 .. MaxWin ELSE {r.trans}) :
       Becomes(propertynotify(St, ev, r, trans))

(***************************************************************************)
(* SpecNotify: windows that change their properties while managed.          *)
(***************************************************************************)
Atoms == {"WM_NAME", "WM_TRANSIENT_FOR", "WM_NORMAL_HINTS", "WM_HINTS"}

\* the windows that get managed; window MaxWin never is
Noticed == {1, 2}

Notices ==
  [window : {root, MaxWin} \cup Noticed, atom : Atoms, state : {"NEW_VALUE", "DELETE"}]

Quiet == [trans |-> 0, trans_err |-> FALSE, size |-> size0, hints_ok |-> TRUE, urgent |-> FALSE]

\* the answers to the request the handler makes for the atom of ev
Replies(ev) ==
  IF ev.state = "DELETE" THEN {Quiet}
  ELSE IF ev.atom = "WM_NORMAL_HINTS"
  THEN {Quiet, [Quiet EXCEPT !.size = FixedSize]}
  ELSE IF ev.atom = "WM_TRANSIENT_FOR"
  THEN {Quiet, [Quiet EXCEPT !.trans = 1], [Quiet EXCEPT !.trans_err = TRUE]}
  ELSE IF ev.atom = "WM_HINTS"
  THEN {Quiet, [Quiet EXCEPT !.urgent = TRUE], [Quiet EXCEPT !.hints_ok = FALSE, !.urgent = TRUE]}
  ELSE {Quiet}

NextNotify ==
  \/ \E w \in Noticed : \E p \in {Plain, [Plain EXCEPT !.size = FixedSize]} :
       w = Cardinality(DOMAIN clients) + 1 /\ MapRequest(w, p) /\ UNCHANGED hist
  \/ \E v \in 1 .. Len(layouts) : SetLayout(v) /\ UNCHANGED hist
  \/ FocusStack(1) /\ UNCHANGED hist
  \/ ToggleFloating /\ UNCHANGED hist
  \/ \E ev \in Notices : \E r \in Replies(ev) : PropertyNotify(ev, r) /\ UNCHANGED hist

SpecNotify == InitZoom /\ [][NextNotify]_vars

\* C40: every client whose isfixed flag is set is floating
C40_FixedIsFloating ==
  \A a \in DOMAIN clients : clients[a].isfixed => clients[a].isfloating

====
